---- MODULE Spec2Model ----
(***************************************************************************)
(* Incremental synchronization core of the wine catalogue pipeline:        *)
(*   app/main.py            run()  - the orchestrator loop                 *)
(*   app/media/service.py   MediaUploader.ensure_image and its helpers     *)
(*   app/sheets/service.py  SheetsWriter.upsert / get_last_position        *)
(*   app/crawler/service.py CategoryCrawler._collect_product_links         *)
(*   app/utils/hash.py      product_etag                                   *)
(*   app/state              StateRepository (not in src/: modelled from    *)
(*                          the specification and tests/test_state.py)     *)
(*                                                                         *)
(* Python values are modelled as follows.  Optional strings are strings,   *)
(* with None the string "None"; Truthy is Python truthiness.  An optional  *)
(* record is a sequence of length 0 (None) or 1.  Byte strings, URLs and   *)
(* digests are strings; sha256 is an injective encoding of its argument.   *)
(***************************************************************************)
EXTENDS Integers, Sequences, FiniteSets, TLC

\* ------------------------------------------------------------------ bounds
MaxRuns == 2        \* runs of run() in one behaviour
MaxCalls == 3       \* calls in one behaviour of SpecMedia / SpecSheets
\* Settings.freeimage_max_retries (FREEIMAGE_MAX_RETRIES, any integer >= 0)
freeimage_max_retries == 1
MaxFaults == 2      \* environment failures in one behaviour of Spec
MaxInt == 9          \* largest integer a sheet cell is parsed to
MaxEdits == 1       \* revisits of one product in one behaviour of SpecEtag
MaxPage == 2        \* the largest page number of a pagination URL
MaxNavigations == 5 \* page.goto calls in one behaviour of SpecCrawl
MaxWords == 3       \* words of an availability text

\* --------------------------------------------------------- python helpers
None == "None"
Truthy(s) == s \notin {"None", ""}
NoRecord == << >>
Some(r) == << r >>
IsSome(o) == Len(o) = 1
OrEmpty(s) == IF Truthy(s) THEN s ELSE ""

\* hashlib.sha256(data).hexdigest(): injective on the modelled inputs
_sha256(data) == "sha256(" \o data \o ")"

\* -------------------------------------------------- the network (environment)
\* Source images the catalogue refers to.  a.jpg and b.jpg are two URLs of the
\* same file (byte-identical content); d.jpg has an unsupported scheme.
ImageUrlA == "http://img/a.jpg"
ImageUrlB == "http://img/b.jpg"
ImageUrlC == "http://img/c.jpg"
ImageUrlD == "ftp://img/d.jpg"
SourceUrls == {ImageUrlA, ImageUrlB, ImageUrlC, ImageUrlD}

\* What the hosting service answers for an accepted upload of `source`
\* (a URL for the remote-URL upload, the bytes for the binary upload).
HostedDirect(source) == "http://host/i/" \o source
HostedViewer(source) == "http://host/v/" \o source
HostedThumb(source) == "http://host/t/" \o source

\* The bytes a successful GET of `url` returns; the host serves what it was given.
BytesAt(url) ==
    IF url \in {ImageUrlA, ImageUrlB, HostedDirect(ImageUrlA),
                HostedDirect(ImageUrlB), HostedDirect("bytesA")} THEN "bytesA"
    ELSE IF url \in {ImageUrlC, HostedDirect(ImageUrlC),
                     HostedDirect("bytesC")} THEN "bytesC"
    ELSE "bytesD"
Contents == {"bytesA", "bytesC"}

\* urlparse(url).scheme.lower() in SUPPORTED_SCHEMES
SUPPORTED_SCHEMES == {"http", "https"}
SchemeOf(url) ==
    IF url \in {None, ""} THEN ""
    ELSE IF url = ImageUrlD THEN "ftp"
    ELSE "http"
_is_supported_scheme(url) == SchemeOf(url) \in SUPPORTED_SCHEMES

\* ------------------------------------------- StateRepository (app/state)
\* images: function from content hash to the hosted record;
\* products: function from product URL to the ProductState record.
ImageRecord(sha, direct_url, viewer_url, thumb_url, original_url) ==
    [sha256 |-> sha, direct_url |-> direct_url, viewer_url |-> viewer_url,
     thumb_url |-> thumb_url, original_url |-> original_url]

get_image(imgs, sha) ==
    IF sha \in DOMAIN imgs THEN Some(imgs[sha]) ELSE NoRecord

\* Any one record whose original_url matches; which one, when several do, is
\* left open.
get_image_by_original(imgs, original_url) ==
    LET hits == {h \in DOMAIN imgs : imgs[h].original_url = original_url}
    IN  IF hits = {} THEN NoRecord ELSE Some(imgs[CHOOSE h \in hits : TRUE])

\* Upsert by hash: overwrites the URL fields and the original-url association.
save_image(imgs, sha, direct_url, viewer_url, thumb_url, original_url) ==
    [h \in DOMAIN imgs \cup {sha} |->
        IF h = sha
            THEN ImageRecord(sha, direct_url, viewer_url, thumb_url, original_url)
            ELSE imgs[h]]

\* A row of the images table in the older layout
\* (sha256, drive_file_id, public_url, original_url)
LegacyImageRow(sha, drive_file_id, public_url, original_url) ==
    [sha256 |-> sha, drive_file_id |-> drive_file_id,
     public_url |-> public_url, original_url |-> original_url]

\* A variant of the migration that creates the table anew
migrate_images_recreating(legacy, keeps_public) == [x \in {} |-> None]

\* Opening a file whose images table has the older layout: every row stays
\* under its hash with its original URL; the viewer and thumbnail columns are
\* new and empty; whether public_url becomes the direct URL is left open.
migrate_images(legacy, keeps_public) ==
    [h \in DOMAIN legacy |->
        ImageRecord(h, IF keeps_public THEN legacy[h].public_url ELSE None,
                    None, None, legacy[h].original_url)]

get_product(prods, product_url) ==
    IF product_url \in DOMAIN prods THEN Some(prods[product_url]) ELSE NoRecord

\* A variant of upsert_product that keeps the row a URL already has
upsert_product_keep_first(prods, product_url, product_id, etag_hash, image_sha256) ==
    [u \in DOMAIN prods \cup {product_url} |->
        IF u \in DOMAIN prods
            THEN prods[u]
            ELSE [product_url |-> product_url, product_id |-> product_id,
                  etag_hash |-> etag_hash, image_sha256 |-> image_sha256]]

upsert_product(prods, product_url, product_id, etag_hash, image_sha256) ==
    [u \in DOMAIN prods \cup {product_url} |->
        IF u = product_url
            THEN [product_url |-> product_url, product_id |-> product_id,
                  etag_hash |-> etag_hash, image_sha256 |-> image_sha256]
            ELSE prods[u]]

EmptyTable == [x \in {} |-> None]

\* ------------------------------------------------ app/media/service.py
MediaUploadResult(sha, direct_url, viewer_url, thumb_url, original_url, uploaded, cached) ==
    [sha256 |-> sha, direct_url |-> direct_url, viewer_url |-> viewer_url,
     thumb_url |-> thumb_url, original_url |-> original_url,
     uploaded |-> uploaded, cached |-> cached]

EmptyMediaResult(original_url) ==
    MediaUploadResult(None, None, None, None, original_url, FALSE, FALSE)

\* One POST attempt of the hosting API, as _post_to_freeimage sees it:
\*   "ok"    _parse_response returned a payload;
\*   "error" the attempt failed and left a non-empty last_error
\*           (response.text or str(exc));
\*   "blank" the attempt failed and left an empty last_error
\*           (a failed response with an empty body);
\*   "crash" _parse_response raised an exception that is not an
\*           httpx.HTTPError, which leaves the loop.
AttemptOutcomes == {"ok", "error", "blank", "crash"}

\* The attempts after the one that ends the loop are never made: they are
\* fixed to "ok"
AttemptSeqs ==
    { a \in [1..(freeimage_max_retries + 1) -> AttemptOutcomes] :
        \A i \in DOMAIN a :
            a[i] \in {"ok", "crash"} =>
                \A j \in DOMAIN a : j > i => a[j] = "ok" }
NoAttempts == [i \in 1..(freeimage_max_retries + 1) |-> "ok"]

\* A variant of the retry loop that makes every attempt it is allowed
PostLoop_all_attempts(attempts, i, last_error) ==
    IF \E j \in DOMAIN attempts : attempts[j] = "ok"
        THEN [kind |-> "payload", posts |-> freeimage_max_retries + 1,
              error |-> "", waits |-> << >>]
        ELSE [kind |-> IF attempts[freeimage_max_retries + 1] = "error"
                          THEN "raise" ELSE "none",
              posts |-> freeimage_max_retries + 1,
              error |-> "FreeImage upload failed after retries: HTTP 500",
              waits |-> << >>]

\* 2 ** attempt
RECURSIVE Pow2(_)
Pow2(n) == IF n = 0 THEN 1 ELSE 2 * Pow2(n - 1)

\* min(2 ** attempt, 5) of line 261, attempt counted from 0
backoff_seconds(attempt) == IF Pow2(attempt) < 5 THEN Pow2(attempt) ELSE 5

\* The retry loop of _post_to_freeimage from attempt i on.
RECURSIVE PostLoop(_, _, _)
PostLoop(attempts, i, last_error) ==
    IF i > freeimage_max_retries + 1
        THEN [kind |-> IF Truthy(last_error) THEN "raise" ELSE "none",
              posts |-> freeimage_max_retries + 1,
              error |-> "FreeImage upload failed after retries: " \o last_error,
              waits |-> << >>]
    ELSE IF attempts[i] = "ok"
        THEN [kind |-> "payload", posts |-> i, error |-> "", waits |-> << >>]
    ELSE IF attempts[i] = "crash"
        THEN [kind |-> "raise", posts |-> i,
              error |-> "'list' object has no attribute 'get'",
              waits |-> << >>]
    ELSE LET rest == PostLoop(attempts, i + 1,
                        IF attempts[i] = "error" THEN "HTTP 500" ELSE "")
         IN  [rest EXCEPT !.waits = << backoff_seconds(i - 1) >> \o @]

\* A response of the hosting API as _parse_response reads it.
\*   status   the status code;
\*   text     "empty" for an empty body, "filled" otherwise;
\*   json     what response.json() makes of the body: "invalid" (it raises
\*            json.JSONDecodeError), "array" (valid JSON that is not an
\*            object) or "object";
\*   success  the "success" member of the object: "missing", "code200" (an
\*            object with code 200), "code400" (an object with another
\*            code) or "true" (a truthy value that is not an object);
\*   image    the "image" member: "missing", "no_url" (an object without
\*            url), "url" (an object with url) or "text" (a truthy value
\*            that is not an object).
\* The members that are not read are fixed.
Responses ==
    { r \in [status : {200, 500}, text : {"empty", "filled"},
             json : {"invalid", "array", "object"},
             success : {"missing", "code200", "code400", "true"},
             image : {"missing", "no_url", "url", "text"}] :
        /\ r.text = "empty" => r.json = "invalid"
        /\ r.status # 200 => r.json = "invalid"
        /\ r.json # "object" => r.success = "missing" /\ r.image = "missing" }

\* "payload": the dict of URLs; "none": None; "AttributeError": the
\* exception of a .get on a value that has none
_parse_response(response) ==
    IF response.status # 200 THEN "none"
    ELSE IF response.json = "invalid" THEN "none"
    ELSE IF response.json = "array" THEN "AttributeError"
    ELSE IF response.success \in {"missing", "code400"} THEN "none"
    ELSE IF response.image = "text" THEN "AttributeError"
    ELSE IF response.image \in {"missing", "no_url"} THEN "none"
    ELSE "payload"

\* What the network does at one attempt: the POST raises an httpx.HTTPError
\* whose text is empty ("timeout") or not ("refused"), or it returns a
\* response
NetworkAttempts ==
    [transport : {"timeout", "refused"}, response : {<< >>}]
        \cup [transport : {"answered"}, response : {<< r >> : r \in Responses}]

\* One pass of the loop body (lines 232-259) as an attempt outcome
AttemptOutcomeOf(attempt) ==
    IF attempt.transport = "timeout" THEN "blank"
    ELSE IF attempt.transport = "refused" THEN "error"
    ELSE LET response == attempt.response[1]
             json_payload == _parse_response(response)
         IN  IF json_payload = "payload" THEN "ok"
             ELSE IF json_payload = "AttributeError" THEN "crash"
             ELSE IF response.text = "empty" THEN "blank"
             ELSE "error"

\* kind: what the call ends in; posts: the POST requests it sent; waits: the
\* seconds it slept, in order
_post_to_freeimage(api_key, attempts) ==
    IF ~Truthy(api_key)
        THEN [kind |-> "none", posts |-> 0, error |-> "", waits |-> << >>]
        ELSE PostLoop(attempts, 1, None)

\* The dict _parse_response builds from an accepted upload of `source`.
UploadResponse(source) ==
    [direct_url |-> HostedDirect(source), viewer_url |-> HostedViewer(source),
     thumb_url |-> HostedThumb(source)]

_upload_via_url(api_key, image_url, attempts) ==
    _post_to_freeimage(api_key, attempts)

_upload_via_bytes(api_key, image_bytes, attempts) ==
    _post_to_freeimage(api_key, attempts)

\* _download: [bytes, gets]; bytes = None when the URL is unusable or the GET
\* fails, gets = the number of GET requests sent.
_download(url, get_ok) ==
    IF ~Truthy(url) \/ ~_is_supported_scheme(url)
        THEN [bytes |-> None, gets |-> 0]
    ELSE IF get_ok THEN [bytes |-> BytesAt(url), gets |-> 1]
    ELSE [bytes |-> None, gets |-> 1]

\* What one ensure_image call returns and does.
MediaOutcome(raised, error, result, imgs, posts, gets, bin_invoked, hosted) ==
    [raised |-> raised, error |-> error, result |-> result, images |-> imgs,
     posts |-> posts, gets |-> gets, bin_invoked |-> bin_invoked,
     hosted |-> hosted]

\* A variant of the tail that also marks the result as cached
FinishUpload_marked_cached(imgs, original_url, response, image_bytes, sha_in, posts, gets, bin_invoked, hosted) ==
    MediaOutcome(FALSE, "",
        MediaUploadResult(sha_in, response.direct_url, response.viewer_url,
                          response.thumb_url, original_url, TRUE, TRUE),
        imgs, posts, gets, bin_invoked, hosted)

\* The tail of ensure_image (lines 167-196), after an accepted upload.
FinishUpload(imgs, original_url, response, image_bytes, sha_in, posts, gets, bin_invoked, hosted) ==
    LET image_sha == IF image_bytes # None /\ sha_in = None
                        THEN _sha256(image_bytes) ELSE sha_in
        imgs2 == IF Truthy(image_sha)
                    THEN save_image(imgs, image_sha, response.direct_url,
                                    response.viewer_url, response.thumb_url,
                                    original_url)
                    ELSE imgs
    IN  MediaOutcome(FALSE, "",
            MediaUploadResult(image_sha, response.direct_url,
                              response.viewer_url, response.thumb_url,
                              original_url, TRUE, FALSE),
            imgs2, posts, gets, bin_invoked, hosted)

\* The branch taken when the remote-URL upload returned None (lines 94-150).
DownloadAndUploadBytes(imgs, api_key, original_url, env, posts0) ==
    LET dl == _download(original_url, env.get_original)
    IN  IF dl.bytes = None
            THEN MediaOutcome(FALSE, "", EmptyMediaResult(original_url), imgs,
                              posts0, dl.gets, FALSE, << >>)
        ELSE
        LET image_sha == _sha256(dl.bytes)
            cached == get_image(imgs, image_sha)
        IN  IF IsSome(cached)
                THEN MediaOutcome(FALSE, "",
                        MediaUploadResult(image_sha, cached[1].direct_url,
                                          cached[1].viewer_url,
                                          cached[1].thumb_url, original_url,
                                          FALSE, TRUE),
                        save_image(imgs, image_sha, cached[1].direct_url,
                                   cached[1].viewer_url, cached[1].thumb_url,
                                   original_url),
                        posts0, dl.gets, FALSE, << >>)
            ELSE
            LET up == _upload_via_bytes(api_key, dl.bytes, env.bytes_attempts)
            IN  IF up.kind = "raise"
                    THEN MediaOutcome(TRUE, up.error,
                                      EmptyMediaResult(original_url), imgs,
                                      posts0 + up.posts, dl.gets, TRUE, << >>)
                ELSE IF up.kind = "none"
                    THEN MediaOutcome(FALSE, "",
                            MediaUploadResult(image_sha, None, None, None,
                                              original_url, FALSE, FALSE),
                            imgs, posts0 + up.posts, dl.gets, TRUE, << >>)
                ELSE FinishUpload(imgs, original_url, UploadResponse(dl.bytes),
                                  dl.bytes, image_sha, posts0 + up.posts,
                                  dl.gets, TRUE, << dl.bytes >>)

\* A variant that downloads the original first and the hosted copy second
HashHostedCopy_original_first(imgs, original_url, env, posts0) ==
    LET response == UploadResponse(original_url)
        d1 == _download(original_url, env.get_original)
        d2 == IF d1.bytes = None
                 THEN _download(response.direct_url, env.get_hosted)
                 ELSE [bytes |-> d1.bytes, gets |-> 0]
        image_sha == IF d2.bytes # None THEN _sha256(d2.bytes) ELSE None
    IN  FinishUpload(imgs, original_url, response, d2.bytes, image_sha, posts0,
                     d1.gets + d2.gets, FALSE, << BytesAt(original_url) >>)

\* The branch taken when the remote-URL upload was accepted (lines 151-165).
HashHostedCopy(imgs, original_url, env, posts0) ==
    LET response == UploadResponse(original_url)
        d1 == _download(response.direct_url, env.get_hosted)
        d2 == IF d1.bytes = None
                 THEN _download(original_url, env.get_original)
                 ELSE [bytes |-> d1.bytes, gets |-> 0]
        image_sha == IF d2.bytes # None THEN _sha256(d2.bytes) ELSE None
    IN  FinishUpload(imgs, original_url, response, d2.bytes, image_sha, posts0,
                     d1.gets + d2.gets, FALSE, << BytesAt(original_url) >>)

\* A variant of the cache hit that fetches the image again
ServeCachedOriginal_downloading(imgs, original_url, cached_original) ==
    MediaOutcome(FALSE, "",
        MediaUploadResult(cached_original.sha256, cached_original.direct_url,
                          cached_original.viewer_url, cached_original.thumb_url,
                          original_url, FALSE, TRUE),
        imgs, 0, 1, FALSE, << >>)

\* The return on a record found by its original URL (lines 73-87)
ServeCachedOriginal(imgs, original_url, cached_original) ==
    MediaOutcome(FALSE, "",
        MediaUploadResult(cached_original.sha256, cached_original.direct_url,
                          cached_original.viewer_url, cached_original.thumb_url,
                          original_url, FALSE, TRUE),
        imgs, 0, 0, FALSE, << >>)

\* MediaUploader.ensure_image(product), product.hero_image_url = original_url.
\* env: what the network does during the call
\*   url_attempts, bytes_attempts  the POST attempts of the two uploads,
\*   get_hosted, get_original      whether the GET of the hosted copy / of
\*                                 the original succeeds.
ensure_image(imgs, api_key, original_url, env) ==
    IF ~Truthy(original_url) \/ ~_is_supported_scheme(original_url)
        THEN MediaOutcome(FALSE, "", EmptyMediaResult(original_url), imgs,
                          0, 0, FALSE, << >>)
    ELSE
    LET cached_original == get_image_by_original(imgs, original_url)
    IN  IF IsSome(cached_original)
            THEN ServeCachedOriginal(imgs, original_url, cached_original[1])
        ELSE
        LET up == _upload_via_url(api_key, original_url, env.url_attempts)
        IN  IF up.kind = "raise"
                THEN MediaOutcome(TRUE, up.error, EmptyMediaResult(original_url),
                                  imgs, up.posts, 0, FALSE, << >>)
            ELSE IF up.kind = "none"
                THEN DownloadAndUploadBytes(imgs, api_key, original_url, env,
                                            up.posts)
            ELSE HashHostedCopy(imgs, original_url, env, up.posts)

\* Failed requests in env
AttemptFaults(attempts) ==
    IF \E i \in DOMAIN attempts : attempts[i] = "crash"
        THEN freeimage_max_retries + 1
        ELSE Cardinality({i \in DOMAIN attempts : attempts[i] # "ok"})

\* Failed requests in env; an upload that ends in an unexpected exception
\* weighs as much as one whose attempts all failed
MediaFaults(env) ==
    AttemptFaults(env.url_attempts) + AttemptFaults(env.bytes_attempts)
    + (IF env.get_hosted THEN 0 ELSE 1) + (IF env.get_original THEN 0 ELSE 1)

\* The network behaviours that matter to a call with this store and key:
\* parts of env the call never consults are fixed.
MediaEnv(url_attempts, bytes_attempts, get_hosted, get_original) ==
    [url_attempts |-> url_attempts, bytes_attempts |-> bytes_attempts,
     get_hosted |-> get_hosted, get_original |-> get_original]

\* What can follow the POST attempts of the remote-URL upload
EnvsAfterUrlUpload(api_key, original_url, url_attempts) ==
    LET up == _upload_via_url(api_key, original_url, url_attempts)
    IN  IF up.kind = "raise"
            THEN {MediaEnv(url_attempts, NoAttempts, TRUE, TRUE)}
        ELSE IF up.kind = "payload"
            THEN {MediaEnv(url_attempts, NoAttempts, TRUE, TRUE),
                  MediaEnv(url_attempts, NoAttempts, FALSE, TRUE),
                  MediaEnv(url_attempts, NoAttempts, FALSE, FALSE)}
        ELSE {MediaEnv(url_attempts, NoAttempts, TRUE, FALSE)}
                \cup {MediaEnv(url_attempts, bytes_attempts, TRUE, TRUE) :
                        bytes_attempts \in IF Truthy(api_key)
                                              THEN AttemptSeqs
                                              ELSE {NoAttempts}}

MediaEnvs(imgs, api_key, original_url) ==
    LET consulted == /\ Truthy(original_url)
                     /\ _is_supported_scheme(original_url)
                     /\ ~IsSome(get_image_by_original(imgs, original_url))
    IN  IF ~consulted
            THEN {MediaEnv(NoAttempts, NoAttempts, TRUE, TRUE)}
            ELSE UNION {EnvsAfterUrlUpload(api_key, original_url, url_attempts) :
                        url_attempts \in IF Truthy(api_key)
                                            THEN AttemptSeqs
                                            ELSE {NoAttempts}}

\* ----------------------------------------------- app/sheets/service.py
SHEET_COLUMNS ==
    << "PRODUCT_URL", "POSITION", "TITLE", "PRICE_VALUE", "COUNTRY", "VOLUME_L",
       "ABV_PERCENT", "AGE_YEARS", "BRAND", "PRODUCER", "TASTING_NOTES",
       "GASTRONOMY", "GRAPES_JSON", "MATURATION", "GIFT_PACKAGING",
       "IMAGE_DIRECT_URL", "IMAGE_CELL", "STATUS", "ERROR_MSG" >>

\* SHEET_COLUMNS.index(name) + 1
ColumnIndex(name) ==
    CHOOSE i \in 1..Len(SHEET_COLUMNS) : SHEET_COLUMNS[i] = name

\* SheetRecord.to_row
to_row(record) ==
    [i \in 1..Len(SHEET_COLUMNS) |->
        IF SHEET_COLUMNS[i] \in DOMAIN record.values
            THEN record.values[SHEET_COLUMNS[i]] ELSE ""]

\* The worksheet: a sequence of rows, each a sequence of cell strings.
\* gspread drops the trailing empty cells of what it reads.
RECURSIVE TrimTrailing(_)
TrimTrailing(cells) ==
    IF cells = << >> THEN << >>
    ELSE IF cells[Len(cells)] = "" THEN TrimTrailing(SubSeq(cells, 1, Len(cells) - 1))
    ELSE cells

row_values(sh, r) == IF r <= Len(sh) THEN TrimTrailing(sh[r]) ELSE << >>

col_values(sh, c) ==
    TrimTrailing([r \in 1..Len(sh) |-> IF c <= Len(sh[r]) THEN sh[r][c] ELSE ""])

\* worksheet.update("A{r}:S{r}", [values]): the first len(SHEET_COLUMNS)
\* cells of row r are overwritten, cells to their right are kept.
update_range(sh, r, values) ==
    LET old == IF r <= Len(sh) THEN sh[r] ELSE << >>
        width == IF Len(old) > Len(values) THEN Len(old) ELSE Len(values)
        new == [i \in 1..width |-> IF i <= Len(values) THEN values[i] ELSE old[i]]
    IN  IF r <= Len(sh) THEN [sh EXCEPT ![r] = new] ELSE Append(sh, new)

append_row(sh, values) == Append(sh, values)

\* The API calls of one sink operation that can fail.
SinkSteps == {"credentials", "open", "row_values", "header_write",
              "col_values", "write"}

\* _get_client / _get_worksheet.  conn is how far the writer got and cached:
\* "none", "client" (self._client set) or "worksheet" (self._worksheet set).
\* Both catch the failure and return None.
_get_worksheet(conn, failing) ==
    IF conn = "worksheet" THEN [ok |-> TRUE, conn |-> conn]
    ELSE IF conn = "none" /\ "credentials" \in failing
        THEN [ok |-> FALSE, conn |-> "none"]
    ELSE IF "open" \in failing THEN [ok |-> FALSE, conn |-> "client"]
    ELSE [ok |-> TRUE, conn |-> "worksheet"]

\* _ensure_header: no call of it is guarded, a failing one raises.
_ensure_header(sh, failing) ==
    IF "row_values" \in failing THEN [raised |-> TRUE, sheet |-> sh]
    ELSE
    LET current_header == row_values(sh, 1)
    IN  IF current_header = SHEET_COLUMNS THEN [raised |-> FALSE, sheet |-> sh]
        ELSE IF "header_write" \in failing THEN [raised |-> TRUE, sheet |-> sh]
        ELSE IF current_header # << >>
            THEN [raised |-> FALSE, sheet |-> update_range(sh, 1, SHEET_COLUMNS)]
        ELSE [raised |-> FALSE, sheet |-> append_row(sh, SHEET_COLUMNS)]

\* _find_row_index: 0 stands for None.  A failed read is caught and gives None.
_find_row_index(sh, unique_key, failing) ==
    IF "col_values" \in failing THEN 0
    ELSE
    LET column_values == col_values(sh, ColumnIndex("PRODUCT_URL"))
        hits == {i \in 2..Len(column_values) : column_values[i] = unique_key}
    IN  IF hits = {} THEN 0 ELSE CHOOSE i \in hits : \A j \in hits : i <= j

_update_row(sh, row_index, values) == update_range(sh, row_index, values)

SinkOutcome(status, raised, sh, conn) ==
    [value |-> 0, status |-> status, raised |-> raised, sheet |-> sh,
     conn |-> conn]

\* SheetsWriter.upsert(record); `failing` is the set of API calls that fail
\* during this call.
upsert(sh, conn, enabled, record, failing) ==
    IF ~enabled THEN SinkOutcome("skipped", FALSE, sh, conn)
    ELSE
    LET ws == _get_worksheet(conn, failing)
    IN  IF ~ws.ok THEN SinkOutcome("skipped", FALSE, sh, ws.conn)
        ELSE
        LET hdr == _ensure_header(sh, failing)
        IN  IF hdr.raised THEN SinkOutcome("raised", TRUE, hdr.sheet, ws.conn)
            ELSE
            LET row == to_row(record)
                existing_row == _find_row_index(hdr.sheet, record.unique_key, failing)
            IN  IF "write" \in failing
                    THEN SinkOutcome("raised", TRUE, hdr.sheet, ws.conn)
                ELSE IF existing_row # 0
                    THEN SinkOutcome("updated", FALSE,
                            _update_row(hdr.sheet, existing_row, row), ws.conn)
                ELSE SinkOutcome("new", FALSE, append_row(hdr.sheet, row), ws.conn)

\* int(value): -1 stands for ValueError (the cell is not an integer)
IntOf(value) ==
    IF \E n \in 0..MaxInt : ToString(n) = value
        THEN CHOOSE n \in 0..MaxInt : ToString(n) = value
        ELSE -1

\* A variant of the loop that keeps the last integer it meets
RECURSIVE MaxPositionFrom_last(_, _, _)
MaxPositionFrom_last(column_values, i, max_position) ==
    IF i > Len(column_values) THEN max_position
    ELSE IF column_values[i] = "" \/ IntOf(column_values[i]) = -1
        THEN MaxPositionFrom_last(column_values, i + 1, max_position)
    ELSE MaxPositionFrom_last(column_values, i + 1, IntOf(column_values[i]))

\* The loop of get_last_position over column_values[1:]
RECURSIVE MaxPositionFrom(_, _, _)
MaxPositionFrom(column_values, i, max_position) ==
    IF i > Len(column_values) THEN max_position
    ELSE IF column_values[i] = ""
        THEN MaxPositionFrom(column_values, i + 1, max_position)
    ELSE IF IntOf(column_values[i]) = -1
        THEN MaxPositionFrom(column_values, i + 1, max_position)
    ELSE IF IntOf(column_values[i]) > max_position
        THEN MaxPositionFrom(column_values, i + 1, IntOf(column_values[i]))
    ELSE MaxPositionFrom(column_values, i + 1, max_position)

PositionOutcome(value, raised, sh, conn) ==
    [value |-> value, status |-> IF raised THEN "raised" ELSE "returned",
     raised |-> raised, sheet |-> sh, conn |-> conn]

\* SheetsWriter.get_last_position()
get_last_position(sh, conn, enabled, failing) ==
    IF ~enabled THEN PositionOutcome(0, FALSE, sh, conn)
    ELSE
    LET ws == _get_worksheet(conn, failing)
    IN  IF ~ws.ok THEN PositionOutcome(0, FALSE, sh, ws.conn)
        ELSE
        LET hdr == _ensure_header(sh, failing)
        IN  IF hdr.raised THEN PositionOutcome(0, TRUE, hdr.sheet, ws.conn)
            ELSE IF "col_values" \in failing
                THEN PositionOutcome(0, FALSE, hdr.sheet, ws.conn)
            ELSE PositionOutcome(
                    MaxPositionFrom(col_values(hdr.sheet, ColumnIndex("POSITION")),
                                    2, 0),
                    FALSE, hdr.sheet, ws.conn)

\* Numbers (Optional[float], Optional[int]) are integers counting hundredths;
\* NoNumber stands for None.
NoNumber == -1

\* f"{value:.2f}".rstrip("0").rstrip(".")
_format_number(value) ==
    IF value = NoNumber THEN ""
    ELSE LET whole == value \div 100
             frac == value % 100
         IN  IF frac = 0 THEN ToString(whole)
             ELSE IF frac % 10 = 0
                 THEN ToString(whole) \o "." \o ToString(frac \div 10)
             ELSE ToString(whole) \o "." \o ToString(frac \div 10)
                                  \o ToString(frac % 10)

RECURSIVE JoinQuoted(_, _)
JoinQuoted(items, i) ==
    IF i > Len(items) THEN ""
    ELSE "\"" \o items[i] \o "\""
         \o (IF i < Len(items) THEN ", " ELSE "") \o JoinQuoted(items, i + 1)

\* json.dumps of a list of strings
JsonList(items) == "[" \o JoinQuoted(items, 1) \o "]"

\* SheetsWriter.build_record
build_record(product_url, title, price_value, country, volume_l, abv_percent, age_years, brand, producer, tasting_notes, gastronomy, grapes, maturation, gift_packaging, position, image_direct_url, status, error_msg) ==
    [unique_key |-> product_url,
     values |->
        [PRODUCT_URL |-> product_url,
         POSITION |-> ToString(position),
         TITLE |-> OrEmpty(title),
         PRICE_VALUE |-> _format_number(price_value),
         COUNTRY |-> OrEmpty(country),
         VOLUME_L |-> _format_number(volume_l),
         ABV_PERCENT |-> _format_number(abv_percent),
         AGE_YEARS |-> _format_number(age_years),
         BRAND |-> OrEmpty(brand),
         PRODUCER |-> OrEmpty(producer),
         TASTING_NOTES |-> OrEmpty(tasting_notes),
         GASTRONOMY |-> OrEmpty(gastronomy),
         GRAPES_JSON |-> JsonList(grapes),
         MATURATION |-> OrEmpty(maturation),
         GIFT_PACKAGING |-> OrEmpty(gift_packaging),
         IMAGE_DIRECT_URL |-> OrEmpty(image_direct_url),
         IMAGE_CELL |-> IF Truthy(image_direct_url)
                           THEN "=IMAGE(\"" \o image_direct_url \o "\")" ELSE "",
         STATUS |-> status,
         ERROR_MSG |-> OrEmpty(error_msg)]]

\* ---------------------------------------------------- app/utils/hash.py
JsonStr(v) == IF v = None THEN "null" ELSE "\"" \o v \o "\""
JsonBool(v) == IF v = None THEN "null" ELSE IF v = "True" THEN "true" ELSE "false"
\* json.dumps of a float: the shortest decimal, with at least one decimal digit
JsonFloat(v) ==
    IF v = NoNumber THEN "null"
    ELSE IF v % 100 = 0 THEN ToString(v \div 100) \o ".0"
    ELSE _format_number(v)
\* json.dumps of an int (age_years counts hundredths like every number here)
JsonInt(v) == IF v = NoNumber THEN "null" ELSE ToString(v \div 100)

\* serialized = json.dumps(payload, ensure_ascii=False, sort_keys=True)
serialized(product) ==
        "{\"abv_percent\": " \o JsonFloat(product.abv_percent)
        \o ", \"age_years\": " \o JsonInt(product.age_years)
        \o ", \"availability\": " \o JsonBool(product.availability)
        \o ", \"awards\": " \o JsonStr(product.awards)
        \o ", \"brand\": " \o JsonStr(product.brand)
        \o ", \"breadcrumbs\": " \o JsonList(product.breadcrumbs)
        \o ", \"country\": " \o JsonStr(product.country)
        \o ", \"gastronomy\": " \o JsonStr(product.gastronomy)
        \o ", \"gift_packaging\": " \o JsonStr(product.gift_packaging)
        \o ", \"grapes\": " \o JsonList(product.grapes)
        \o ", \"image_url\": " \o JsonStr(product.hero_image_url)
        \o ", \"maturation\": " \o JsonStr(product.maturation)
        \o ", \"price_currency\": " \o JsonStr(product.price_currency)
        \o ", \"price_value\": " \o JsonFloat(product.price_value)
        \o ", \"producer\": " \o JsonStr(product.producer)
        \o ", \"product_id\": " \o JsonStr(product.product_id)
        \o ", \"product_url\": " \o JsonStr(product.product_url)
        \o ", \"sku\": " \o JsonStr(product.sku)
        \o ", \"tasting_notes\": " \o JsonStr(product.tasting_notes)
        \o ", \"title\": " \o JsonStr(product.title)
        \o ", \"volume_l\": " \o JsonFloat(product.volume_l)
        \o "}"

\* A variant of product_etag whose payload also carries the page number
product_etag_with_page(product) ==
    _sha256(serialized(product) \o ToString(product.page_number))

\* A variant of product_etag whose payload leaves out the awards
product_etag_without_awards(product) ==
    _sha256(serialized([product EXCEPT !.awards = None]))

\* hashlib.sha256(serialized.encode("utf-8")).hexdigest()
product_etag(product) == _sha256(serialized(product))

\* --------------------------------------------- the catalogue (environment)
SiteRoot == "http://shop"
\* urljoin(page.url, raw_href) for the site-absolute hrefs of the catalogue
urljoin(page_url, raw_href) == SiteRoot \o raw_href

\* The category pages in crawl order with the hrefs PRODUCT_LINK_SELECTOR
\* matches: page 1 lists p1 twice, p2 is listed on both pages, page 2 has an
\* anchor without href.  Crawl positions: 1 = p1, 2 = p2, 3 = p2.
Catalog ==
    << [url |-> "http://shop/cat/?PAGEN_1=1", page_number |-> 1,
        hrefs |-> << "/tovar/p1", "/tovar/p2", "/tovar/p1" >>],
       [url |-> "http://shop/cat/?PAGEN_1=2", page_number |-> 2,
        hrefs |-> << "", "/tovar/p2" >>] >>

ProductUrls == {urljoin("", h) : h \in {"/tovar/p1", "/tovar/p2"}}

\* The hero image a product page shows
HeroOf(product_url) ==
    IF product_url = urljoin("", "/tovar/p1") THEN ImageUrlA
    ELSE ImageUrlB

\* The content variants a product page can show (they differ in the price)
PageVersions == {1, 2}

\* What parser.parse followed by normalizer.normalize returns for the page of
\* `link` when the page shows content version v (the price follows v).
NormalizedOf(link, v) ==
    [product_url |-> link.url,
     source_page_url |-> link.source_page_url,
     page_number |-> link.page_number,
     \* raw.product_id or _fallback_product_id(url): p2 shows no article number
     product_id |-> IF link.url = urljoin("", "/tovar/p2")
                       THEN _sha256(link.url) ELSE "SKU-1",
     title |-> "Cognac",
     sku |-> IF link.url = urljoin("", "/tovar/p2") THEN None ELSE "SKU-1",
     country |-> "France",
     brand |-> "Brand",
     producer |-> None,
     price_value |-> 999900 + 50 * v,
     price_currency |-> "RUB",
     volume_l |-> 70,
     abv_percent |-> 4000,
     age_years |-> NoNumber,
     availability |-> "True",
     tasting_notes |-> "notes",
     gastronomy |-> None,
     grapes |-> << "Ugni Blanc", "Colombard" >>,
     maturation |-> None,
     awards |-> None,
     gift_packaging |-> None,
     breadcrumbs |-> << "Catalogue" >>,
     image_urls |-> << HeroOf(link.url) >>,
     hero_image_url |-> HeroOf(link.url),
     image_direct_url |-> None,
     image_viewer_url |-> None,
     image_thumb_url |-> None,
     image_sha256 |-> None]

\* ---------------------------------------------- app/crawler/service.py
ProductLink(url, source_page_url, page_number, position) ==
    [url |-> url, source_page_url |-> source_page_url,
     page_number |-> page_number, position |-> position]

\* The loop of _collect_product_links from href number i on
RECURSIVE CollectFrom(_, _, _, _, _, _)
CollectFrom(page_url, page_number, hrefs, i, links, seen) ==
    IF i > Len(hrefs) THEN links
    ELSE IF ~Truthy(hrefs[i])
        THEN CollectFrom(page_url, page_number, hrefs, i + 1, links, seen)
    ELSE IF urljoin(page_url, hrefs[i]) \in seen
        THEN CollectFrom(page_url, page_number, hrefs, i + 1, links, seen)
    ELSE CollectFrom(page_url, page_number, hrefs, i + 1,
            Append(links, ProductLink(urljoin(page_url, hrefs[i]), page_url,
                                      page_number, i)),
            seen \cup {urljoin(page_url, hrefs[i])})

_collect_product_links(page_url, page_number, hrefs) ==
    CollectFrom(page_url, page_number, hrefs, 1, << >>, {})

\* All links of the crawl in the order run() meets them
RECURSIVE CrawlOrderFrom(_)
CrawlOrderFrom(i) ==
    IF i > Len(Catalog) THEN << >>
    ELSE _collect_product_links(Catalog[i].url, Catalog[i].page_number,
                                Catalog[i].hrefs) \o CrawlOrderFrom(i + 1)
CrawlOrder == CrawlOrderFrom(1)

\* ============================================================== state
VARIABLES
    products,     \* StateRepository: the products table (ProductState by URL)
    images,       \* StateRepository: the images table (ImageRecord by hash)
    sheet,        \* the remote worksheet
    conn,         \* SheetsWriter._client / _worksheet of the current writer
    settings,     \* Settings of the current process
    version,      \* content version each product page shows
    pc,           \* where run() stands
    runs,         \* runs of run() begun so far
    loc,          \* local variables of run()
    counters,     \* inserted / updated / skipped of run()
    log,          \* history: what the current run did, by crawl position
    media_call,   \* history: the last ensure_image call
    hosted,       \* history: accepted uploads so far, per image content
    sink_call,    \* history: the last sink call
    latest,       \* history: the row of the last upsert that wrote, per key
    calls,        \* number of calls made in SpecMedia / SpecSheets / SpecEtag
    etag_call,    \* history: the last fingerprint comparison of SpecEtag
    faults,       \* environment failures so far
    store_log,    \* history: the file opened and the last write per key
    norm_call,    \* history: the last normalize call
    post_call,    \* history: the last hosting API call of SpecPost
    crawl,        \* CategoryCrawler.crawl: its locals and what it navigated to
    avail_call    \* history: the last _normalize_availability call

vars == << products, images, sheet, conn, settings, version, pc, runs, loc,
           counters, log, media_call, hosted, sink_call, latest, calls,
           etag_call, faults, store_log, norm_call, post_call, crawl,
           avail_call >>

NoLocals ==
    [last_position |-> 0, current_position |-> 0, page |-> 0, links |-> << >>,
     link_index |-> 0, normalized |-> NoRecord, etag_hash |-> None,
     product_record |-> NoRecord, product_id |-> None, need_update |-> FALSE,
     image_sha |-> None, media_result |-> NoRecord, media_error |-> None,
     record |-> NoRecord, status |-> None]

\* History of the counter step: the crawl position and what was counted
Counting(outcome, position, status) ==
    [q \in DOMAIN outcome \cup {position} |->
        IF q = position THEN status ELSE outcome[q]]

\* The per-product locals are dead once the next link is taken
ClearProduct(l) ==
    [l EXCEPT !.normalized = NoRecord, !.etag_hash = None,
              !.product_record = NoRecord, !.product_id = None,
              !.need_update = FALSE, !.image_sha = None,
              !.media_result = NoRecord, !.media_error = None,
              !.record = NoRecord, !.status = None]

NoCounters == [inserted |-> 0, updated |-> 0, skipped |-> 0]

NoLog ==
    [result |-> "none", passed |-> {}, taken |-> {}, parsed |-> {},
     fingerprinted |-> {},
     unchanged |-> {}, imaged |-> {}, upserted |-> {}, persisted |-> {},
     persisted_urls |-> << >>, failed_at |-> 0, sink_failed |-> FALSE,
     image_raised |-> {}, outcome |-> << >>]

NoMediaCall ==
    [made |-> FALSE, api_key |-> "", original_url |-> None, raised |-> FALSE,
     result |-> EmptyMediaResult(None), posts |-> 0, gets |-> 0,
     bin_invoked |-> FALSE, before |-> EmptyTable, url_exhausted |-> FALSE,
     bytes_exhausted |-> FALSE, source_ok |-> FALSE,
     hosted_ok |-> TRUE, accepted |-> 0,
     post |-> [called |-> FALSE, kind |-> "none", posts |-> 0, first_ok |-> 0,
               crashed_at |-> 0]]

NoSinkCall ==
    [made |-> FALSE, op |-> "none", enabled |-> FALSE, failing |-> {},
     status |-> None, value |-> 0, raised |-> FALSE, reached |-> FALSE,
     key |-> None, before |-> << >>]

NoEtagCall ==
    [made |-> FALSE, before |-> NoRecord, after |-> NoRecord,
     etag_before |-> None, etag_after |-> None, need_update |-> FALSE]

\* layout / legacy: the images table of the file the repository was opened
\* on; product_writes / image_writes: the arguments of the last upsert_product
\* per URL and of the last save_image per hash; overwrote: some write replaced
\* a row by a different one
NoStoreLog ==
    [opened |-> FALSE, layout |-> "none", legacy |-> << >>,
     product_writes |-> << >>, image_writes |-> << >>, overwrote |-> FALSE]

NoMetrics == [items_processed |-> 0, llm_calls |-> 0, llm_failures |-> 0]

\* client: the normalizer's LLM client; requested / failed: the modes
\* _maybe_call_llm asked the client for / got LLMUnavailableError for;
\* before / after: NormalizerMetrics around the call
\* attempts: what the network did at each attempt; kind / posts / waits:
\* what the call ended in, the POSTs it sent and the seconds it slept
NoPostCall ==
    [made |-> FALSE, api_key |-> "", attempts |-> << >>, kind |-> "none",
     posts |-> 0, waits |-> << >>]

\* site: the pages as the crawl finds them; queue, queued, visited,
\* fallback_page_counter: the locals of crawl; navigations: the URLs handed
\* to page.goto, in order; closed: page.close has run
NoCrawl ==
    [started |-> FALSE, site |-> << >>, queue |-> << >>, queued |-> {},
     visited |-> {}, fallback_page_counter |-> 0, navigations |-> << >>,
     closed |-> FALSE]

NoAvailCall ==
    [made |-> FALSE, availability_text |-> << >>, result |-> "None"]

NoNormCall ==
    [made |-> FALSE, client |-> "absent", result |-> NoRecord, requested |-> {}, failed |-> {},
     before |-> NoMetrics, after |-> NoMetrics]

ApiKeys == {"", "secret"}
SettingsSet == [freeimage_api_key : ApiKeys, sink_enabled : BOOLEAN]

\* The sets of API calls that fail during one sink call
SinkFailures ==
    {{}} \cup {{step} : step \in SinkSteps} \cup {{"col_values", "write"}}

\* Every POST attempt of one upload failed
AllFailed(attempts) == \A i \in DOMAIN attempts : attempts[i] # "ok"

\* The first attempt of the kind `outcome` with only retried failures
\* before it, 0 when there is none
FirstOf(attempts, outcome) ==
    LET hits == {i \in DOMAIN attempts :
                    /\ attempts[i] = outcome
                    /\ \A j \in 1..(i - 1) : attempts[j] \in {"error", "blank"}}
    IN  IF hits = {} THEN 0 ELSE CHOOSE i \in hits : TRUE

\* The first attempt that gets a usable response, 0 when none does
FirstOk(attempts) == FirstOf(attempts, "ok")

\* url_exhausted / bytes_exhausted: the call made the remote-URL / the binary
\* upload with the key set and every attempt of it failed; source_ok: a GET
\* of the original succeeds during the call; post: the hosting API call of
\* the remote-URL upload, when the call made it with the key set
RecordMediaCall(api_key, original_url, out, before, env) ==
    [made |-> TRUE, api_key |-> api_key, original_url |-> original_url,
     raised |-> out.raised, result |-> out.result, posts |-> out.posts,
     gets |-> out.gets, bin_invoked |-> out.bin_invoked, before |-> before,
     url_exhausted |->
        /\ Truthy(api_key)
        /\ Truthy(original_url) /\ _is_supported_scheme(original_url)
        /\ get_image_by_original(before, original_url) = NoRecord
        /\ AllFailed(env.url_attempts),
     bytes_exhausted |->
        Truthy(api_key) /\ out.bin_invoked /\ AllFailed(env.bytes_attempts),
     source_ok |-> env.get_original,
     hosted_ok |-> env.get_hosted, accepted |-> Len(out.hosted),
     post |->
        IF /\ Truthy(api_key)
           /\ Truthy(original_url) /\ _is_supported_scheme(original_url)
           /\ get_image_by_original(before, original_url) = NoRecord
            THEN LET up == _post_to_freeimage(api_key, env.url_attempts)
                 IN  [called |-> TRUE, kind |-> up.kind, posts |-> up.posts,
                      first_ok |-> FirstOk(env.url_attempts),
                      crashed_at |-> FirstOf(env.url_attempts, "crash")]
            ELSE [called |-> FALSE, kind |-> "none", posts |-> 0,
                  first_ok |-> 0, crashed_at |-> 0]]

CountHosted(h, out) ==
    [c \in Contents |->
        h[c] + Cardinality({i \in 1..Len(out.hosted) : out.hosted[i] = c})]

\* reached: the call got its worksheet; key: the key of the record upserted;
\* before: the worksheet as the call found it
RecordSinkCall(op, enabled, failing, out, key, sheet_before, conn_before) ==
    [made |-> TRUE, op |-> op, enabled |-> enabled, failing |-> failing,
     status |-> out.status, value |-> out.value, raised |-> out.raised,
     reached |-> enabled /\ _get_worksheet(conn_before, failing).ok,
     key |-> key, before |-> sheet_before]

RecordLatest(l, record, out) ==
    IF out.status \in {"new", "updated"}
        THEN [k \in DOMAIN l \cup {record.unique_key} |->
                IF k = record.unique_key THEN to_row(record) ELSE l[k]]
        ELSE l

\* ------------------------------------------------------ app/main.py run()
Init ==
    /\ products = EmptyTable
    /\ images = EmptyTable
    /\ sheet = << >>
    /\ conn = "none"
    /\ settings = [freeimage_api_key |-> "", sink_enabled |-> FALSE]
    /\ version = [u \in ProductUrls |-> 1]
    /\ pc = "idle"
    /\ runs = 0
    /\ loc = NoLocals
    /\ counters = NoCounters
    /\ log = NoLog
    /\ media_call = NoMediaCall
    /\ hosted = [c \in Contents |-> 0]
    /\ sink_call = NoSinkCall
    /\ latest = EmptyTable
    /\ calls = 0
    /\ etag_call = NoEtagCall
    /\ faults = 0
    /\ store_log = NoStoreLog
    /\ post_call = NoPostCall
    /\ crawl = NoCrawl
    /\ avail_call = NoAvailCall
    /\ norm_call = NoNormCall

\* The environment fails n more times
Spend(n) == faults + n <= MaxFaults /\ faults' = faults + n

\* The run ends: normally after the last page, or by an exception leaving run()
EndRun(result, position) ==
    /\ pc' = "idle"
    /\ conn' = "none"
    /\ log' = [log EXCEPT !.result = result, !.failed_at = position]

\* Lines 27-46: a new process builds its components from its settings and
\* reads the resume position once.
StartRun ==
    /\ pc = "idle"
    /\ runs < MaxRuns
    /\ runs' = runs + 1
    /\ \E new_settings \in SettingsSet, failing \in SinkFailures :
        LET out == get_last_position(sheet, "none", new_settings.sink_enabled,
                                     failing)
        IN  /\ Spend(Cardinality(failing))
            /\ settings' = new_settings
            /\ sheet' = out.sheet
            /\ counters' = NoCounters
            /\ IF out.raised
                  THEN /\ pc' = "idle"
                       /\ conn' = "none"
                       /\ loc' = NoLocals
                       /\ log' = [NoLog EXCEPT !.result = "aborted"]
                  ELSE /\ pc' = "crawl"
                       /\ conn' = out.conn
                       /\ loc' = [NoLocals EXCEPT !.last_position = out.value]
                       /\ log' = [NoLog EXCEPT !.result = "running",
                                                !.sink_failed = failing # {}]
    /\ UNCHANGED << post_call, crawl, avail_call, store_log, norm_call, etag_call, products, images, version, media_call, hosted, sink_call,
                    latest, calls >>

\* Line 50: the crawler yields the next category page, ends, or its
\* navigation raises.
CrawlPage ==
    /\ pc = "crawl"
    /\ \/ /\ loc.page < Len(Catalog)
          /\ \E navigation_ok \in BOOLEAN :
                IF navigation_ok
                    THEN /\ loc' = [loc EXCEPT
                                !.page = loc.page + 1,
                                !.links = _collect_product_links(
                                              Catalog[loc.page + 1].url,
                                              Catalog[loc.page + 1].page_number,
                                              Catalog[loc.page + 1].hrefs),
                                !.link_index = 0]
                         /\ pc' = "link"
                         /\ UNCHANGED << conn, log, faults >>
                    ELSE /\ EndRun("aborted", 0)
                         /\ Spend(1)
                         /\ UNCHANGED loc
       \/ /\ loc.page = Len(Catalog)
          /\ EndRun("completed", 0)
          /\ UNCHANGED << loc, faults >>
    /\ UNCHANGED << post_call, crawl, avail_call, store_log, norm_call, etag_call, products, images, sheet, settings, version, runs, counters,
                    media_call, hosted, sink_call, latest, calls >>

\* A variant of NextLink that does not wait for the ProductState write of
\* the product before
NextLink_before_persist ==
    /\ pc \in {"link", "persist"}
    /\ IF loc.link_index = Len(loc.links)
          THEN /\ pc' = "crawl"
               /\ loc' = ClearProduct(loc)
               /\ UNCHANGED log
          ELSE LET position == loc.current_position + 1
               IN  /\ loc' = [ClearProduct(loc) EXCEPT
                                !.link_index = loc.link_index + 1,
                                !.current_position = position]
                   /\ IF position <= loc.last_position
                         THEN /\ pc' = "link"
                              /\ log' = [log EXCEPT !.passed = @ \cup {position}]
                         ELSE /\ pc' = "parse"
                              /\ log' = [log EXCEPT !.taken = @ \cup {position}]
    /\ UNCHANGED << post_call, crawl, avail_call, store_log, norm_call, etag_call, products, images, sheet, conn, settings, version, runs,
                    counters, media_call, hosted, sink_call, latest, calls,
                    faults >>

\* Lines 56-70: the next product link of the page; positions up to
\* last_position are passed over.
NextLink ==
    /\ pc = "link"
    /\ IF loc.link_index = Len(loc.links)
          THEN /\ pc' = "crawl"
               /\ loc' = ClearProduct(loc)
               /\ UNCHANGED log
          ELSE LET position == loc.current_position + 1
               IN  /\ loc' = [ClearProduct(loc) EXCEPT
                                !.link_index = loc.link_index + 1,
                                !.current_position = position]
                   /\ IF position <= loc.last_position
                         THEN /\ pc' = "link"
                              /\ log' = [log EXCEPT !.passed = @ \cup {position}]
                         ELSE /\ pc' = "parse"
                              /\ log' = [log EXCEPT !.taken = @ \cup {position}]
    /\ UNCHANGED << post_call, crawl, avail_call, store_log, norm_call, etag_call, products, images, sheet, conn, settings, version, runs,
                    counters, media_call, hosted, sink_call, latest, calls,
                    faults >>

\* Lines 71-75: parser.parse and normalizer.normalize; an exception of
\* either leaves run().
ParseProduct ==
    /\ pc = "parse"
    /\ \E parse_ok \in BOOLEAN :
        IF parse_ok
            THEN /\ loc' = [loc EXCEPT !.normalized =
                        Some(NormalizedOf(loc.links[loc.link_index],
                                version[loc.links[loc.link_index].url]))]
                 /\ log' = [log EXCEPT !.parsed = @ \cup {loc.current_position}]
                 /\ pc' = "fingerprint"
                 /\ UNCHANGED << conn, faults >>
            ELSE /\ EndRun("aborted", loc.current_position)
                 /\ Spend(1)
                 /\ UNCHANGED loc
    /\ UNCHANGED << post_call, crawl, avail_call, store_log, norm_call, etag_call, products, images, sheet, settings, version, runs, counters,
                    media_call, hosted, sink_call, latest, calls >>

\* A variant of need_update that ignores the stored fingerprint
need_update_always(product_record, etag_hash) == TRUE

\* A variant that also takes a product stored without an image for changed
need_update_retrying_image(product_record, etag_hash) ==
    \/ product_record = NoRecord
    \/ product_record[1].etag_hash # etag_hash
    \/ ~Truthy(product_record[1].image_sha256)

\* need_update of lines 81-84
need_update(product_record, etag_hash) ==
    product_record = NoRecord \/ product_record[1].etag_hash # etag_hash

\* Lines 77-92 and 183-184: fingerprint, stored state, the decision
Fingerprint ==
    /\ pc = "fingerprint"
    /\ LET normalized == loc.normalized[1]
           etag_hash == product_etag(normalized)
           product_record == get_product(products, normalized.product_url)
           need == need_update(product_record, etag_hash)
       IN  /\ loc' = [loc EXCEPT
                !.etag_hash = etag_hash,
                !.product_record = product_record,
                !.product_id = IF Truthy(normalized.product_id)
                                  THEN normalized.product_id
                                  ELSE normalized.product_url,
                !.need_update = need,
                !.image_sha = IF IsSome(product_record)
                                 THEN product_record[1].image_sha256 ELSE None]
           /\ log' = [log EXCEPT
                !.fingerprinted = @ \cup {loc.current_position},
                !.unchanged = IF need THEN @ ELSE @ \cup {loc.current_position},
                !.outcome = IF need THEN @
                            ELSE Counting(@, loc.current_position, "unchanged")]
           /\ IF need
                 THEN /\ pc' = "image"
                      /\ UNCHANGED counters
                 ELSE /\ pc' = "persist"
                      /\ counters' = [counters EXCEPT !.skipped = @ + 1]
    /\ UNCHANGED << post_call, crawl, avail_call, store_log, norm_call, etag_call, products, images, sheet, conn, settings, version, runs,
                    media_call, hosted, sink_call, latest, calls, faults >>

\* The message run() sets itself when no image URL resulted (lines 145-149)
UploadSkipped == "FreeImage upload skipped (missing API key or empty response)."

\* A variant of media_error_for that sets no message of its own
media_error_for_as_raised(image_direct_url, media_error) == media_error

\* media_error of lines 144-149
media_error_for(image_direct_url, media_error) ==
    IF ~Truthy(image_direct_url) /\ media_error = None
        THEN UploadSkipped ELSE media_error

\* A variant of target_status that never degrades to error
target_status_without_error(product_record, image_direct_url) ==
    IF product_record = NoRecord THEN "new" ELSE "updated"

\* A variant of target_status that reports every row with an image as new
target_status_always_new(product_record, image_direct_url) ==
    IF ~Truthy(image_direct_url) THEN "error" ELSE "new"

\* target_status of lines 143-150
target_status(product_record, image_direct_url) ==
    IF ~Truthy(image_direct_url) THEN "error"
    ELSE IF product_record = NoRecord THEN "new" ELSE "updated"

\* Lines 122-170 after ensure_image returned media_result or raised
\* (media_error): the image fields, the status and the row to write.
RowFor(normalized, position, product_record, image_sha_in, media_result, media_error_in, imgs) ==
    LET image_sha == IF Truthy(media_result.sha256)
                        THEN media_result.sha256 ELSE image_sha_in
        cached_image == IF Truthy(media_result.sha256)
                           THEN get_image(imgs, media_result.sha256)
                        ELSE IF Truthy(image_sha_in)
                           THEN get_image(imgs, image_sha_in)
                        ELSE NoRecord
        image_direct_url == IF Truthy(media_result.direct_url)
                               THEN media_result.direct_url
                            ELSE IF IsSome(cached_image)
                               THEN cached_image[1].direct_url
                            ELSE None
        media_error == media_error_for(image_direct_url, media_error_in)
        status == target_status(product_record, image_direct_url)
    IN  [image_sha |-> image_sha,
         media_error |-> media_error,
         record |-> build_record(normalized.product_url, normalized.title,
                        normalized.price_value, normalized.country,
                        normalized.volume_l, normalized.abv_percent,
                        normalized.age_years, normalized.brand,
                        normalized.producer, normalized.tasting_notes,
                        normalized.gastronomy, normalized.grapes,
                        normalized.maturation, normalized.gift_packaging,
                        position, image_direct_url, status, media_error)]

\* Lines 97-170: the image pipeline, its exception caught, and the row built
ProcessImage ==
    /\ pc = "image"
    /\ LET normalized == loc.normalized[1]
       IN  \E env \in MediaEnvs(images, settings.freeimage_api_key,
                                normalized.hero_image_url) :
            LET out == ensure_image(images, settings.freeimage_api_key,
                                    normalized.hero_image_url, env)
                media_result == IF out.raised
                                   THEN EmptyMediaResult(normalized.hero_image_url)
                                   ELSE out.result
                row == RowFor(normalized, loc.current_position,
                              loc.product_record, loc.image_sha, media_result,
                              IF out.raised THEN out.error ELSE None, out.images)
            IN  /\ Spend(MediaFaults(env))
                /\ images' = out.images
                /\ loc' = [loc EXCEPT !.image_sha = row.image_sha,
                                      !.media_result = Some(media_result),
                                      !.media_error = row.media_error,
                                      !.record = Some(row.record)]
                /\ log' = [log EXCEPT
                            !.imaged = @ \cup {loc.current_position},
                            !.image_raised = IF out.raised
                                THEN @ \cup {loc.current_position} ELSE @]
    /\ pc' = "upsert"
    /\ UNCHANGED << post_call, crawl, avail_call, store_log, norm_call, etag_call, products, sheet, conn, settings, version, runs, counters,
                    media_call, hosted, sink_call, latest, calls >>

\* A variant of WriteRow that does not count a skipped sink write
WriteRow_uncounted_skip ==
    /\ pc = "upsert"
    /\ \E failing \in SinkFailures :
        LET out == upsert(sheet, conn, settings.sink_enabled, loc.record[1],
                          failing)
        IN  /\ Spend(Cardinality(failing))
            /\ sheet' = out.sheet
            /\ IF out.raised
                  THEN /\ EndRun("aborted", loc.current_position)
                       /\ UNCHANGED << loc, counters >>
                  ELSE /\ pc' = "persist"
                       /\ conn' = out.conn
                       /\ loc' = [loc EXCEPT !.status = out.status]
                       /\ counters' =
                            IF out.status = "new"
                                THEN [counters EXCEPT !.inserted = @ + 1]
                            ELSE IF out.status = "updated"
                                THEN [counters EXCEPT !.updated = @ + 1]
                            ELSE counters
                       /\ log' = [log EXCEPT
                                    !.upserted = @ \cup {loc.current_position},
                                    !.sink_failed = @ \/ failing # {},
                                    !.outcome = Counting(@, loc.current_position,
                                                         out.status)]
    /\ UNCHANGED << post_call, crawl, avail_call, store_log, norm_call, etag_call, products, images, settings, version, runs, media_call,
                    hosted, sink_call, latest, calls >>

\* Lines 171-182: the sink write and the run counters; an exception of
\* upsert leaves run().
WriteRow ==
    /\ pc = "upsert"
    /\ \E failing \in SinkFailures :
        LET out == upsert(sheet, conn, settings.sink_enabled, loc.record[1],
                          failing)
        IN  /\ Spend(Cardinality(failing))
            /\ sheet' = out.sheet
            /\ IF out.raised
                  THEN /\ EndRun("aborted", loc.current_position)
                       /\ UNCHANGED << loc, counters >>
                  ELSE /\ pc' = "persist"
                       /\ conn' = out.conn
                       /\ loc' = [loc EXCEPT !.status = out.status]
                       /\ counters' =
                            IF out.status = "new"
                                THEN [counters EXCEPT !.inserted = @ + 1]
                            ELSE IF out.status = "updated"
                                THEN [counters EXCEPT !.updated = @ + 1]
                            ELSE [counters EXCEPT !.skipped = @ + 1]
                       /\ log' = [log EXCEPT
                                    !.upserted = @ \cup {loc.current_position},
                                    !.sink_failed = @ \/ failing # {},
                                    !.outcome = Counting(@, loc.current_position,
                                                         out.status)]
    /\ UNCHANGED << post_call, crawl, avail_call, store_log, norm_call, etag_call, products, images, settings, version, runs, media_call,
                    hosted, sink_call, latest, calls >>

\* A variant of PersistState that keeps the old state when the sink write
\* was skipped
PersistState_unless_skipped ==
    /\ pc = "persist"
    /\ products' = IF loc.status = "skipped"
                      THEN products
                      ELSE upsert_product(products, loc.normalized[1].product_url,
                                          loc.product_id, loc.etag_hash,
                                          loc.image_sha)
    /\ log' = [log EXCEPT
            !.persisted = @ \cup {loc.current_position},
            !.persisted_urls = Append(@, loc.normalized[1].product_url)]
    /\ pc' = "link"
    /\ UNCHANGED << post_call, crawl, avail_call, store_log, norm_call, etag_call, images, sheet, conn, settings, version, runs, loc, counters,
                    media_call, hosted, sink_call, latest, calls, faults >>

\* Lines 186-192: state.upsert_product
PersistState ==
    /\ pc = "persist"
    /\ products' = upsert_product(products, loc.normalized[1].product_url,
                                  loc.product_id, loc.etag_hash, loc.image_sha)
    /\ log' = [log EXCEPT
            !.persisted = @ \cup {loc.current_position},
            !.persisted_urls = Append(@, loc.normalized[1].product_url)]
    /\ pc' = "link"
    /\ UNCHANGED << post_call, crawl, avail_call, store_log, norm_call, etag_call, images, sheet, conn, settings, version, runs, loc, counters,
                    media_call, hosted, sink_call, latest, calls, faults >>

\* Between runs the site may change what a product page shows
CatalogChange ==
    /\ pc = "idle"
    /\ 0 < runs /\ runs < MaxRuns
    /\ \E u \in ProductUrls, v \in PageVersions :
        /\ v # version[u]
        /\ version' = [version EXCEPT ![u] = v]
    /\ UNCHANGED << post_call, crawl, avail_call, store_log, norm_call, etag_call, products, images, sheet, conn, settings, pc, runs, loc,
                    counters, log, media_call, hosted, sink_call, latest, calls,
                    faults >>

Next ==
    \/ StartRun
    \/ CrawlPage
    \/ NextLink
    \/ ParseProduct
    \/ Fingerprint
    \/ ProcessImage
    \/ WriteRow
    \/ PersistState
    \/ CatalogChange

Spec == Init /\ [][Next]_vars

\* ------------------------------------- ensure_image calls on one Image Store
\* Any sequence of ensure_image calls, for any source URL and any network
\* behaviour, by uploaders that share the images table; the API key is a
\* setting of the process and may differ from one process to the next.
InitMedia ==
    /\ products = EmptyTable
    /\ images = EmptyTable
    /\ sheet = << >>
    /\ conn = "none"
    /\ settings \in {st \in SettingsSet : ~st.sink_enabled}
    /\ version = [u \in ProductUrls |-> 1]
    /\ pc = "media"
    /\ runs = 0
    /\ loc = NoLocals
    /\ counters = NoCounters
    /\ log = NoLog
    /\ media_call = NoMediaCall
    /\ hosted = [c \in Contents |-> 0]
    /\ sink_call = NoSinkCall
    /\ latest = EmptyTable
    /\ calls = 0
    /\ etag_call = NoEtagCall
    /\ faults = 0
    /\ store_log = NoStoreLog
    /\ post_call = NoPostCall
    /\ crawl = NoCrawl
    /\ avail_call = NoAvailCall
    /\ norm_call = NoNormCall

MediaCall ==
    /\ pc = "media"
    /\ calls < MaxCalls
    /\ calls' = calls + 1
    /\ \E original_url \in SourceUrls \cup {None} :
        \E env \in MediaEnvs(images, settings.freeimage_api_key, original_url) :
            LET out == ensure_image(images, settings.freeimage_api_key,
                                    original_url, env)
            IN  /\ images' = out.images
                /\ media_call' = RecordMediaCall(settings.freeimage_api_key,
                                                 original_url, out, images, env)
                /\ hosted' = CountHosted(hosted, out)
    /\ UNCHANGED << post_call, crawl, avail_call, store_log, norm_call, etag_call, products, sheet, conn, settings, version, pc, runs, loc,
                    counters, log, sink_call, latest, faults >>

Reconfigure ==
    /\ pc = "media"
    /\ calls < MaxCalls
    /\ \E api_key \in ApiKeys \ {settings.freeimage_api_key} :
        settings' = [settings EXCEPT !.freeimage_api_key = api_key]
    /\ UNCHANGED << post_call, crawl, avail_call, store_log, norm_call, etag_call, products, images, sheet, conn, version, pc, runs, loc,
                    counters, log, media_call, hosted, sink_call, latest, calls,
                    faults >>

NextMedia == MediaCall \/ Reconfigure

SpecMedia == InitMedia /\ [][NextMedia]_vars

\* ------------------------------------------- sink calls on one worksheet
\* Any sequence of upsert and get_last_position calls of one SheetsWriter,
\* with any API call failing, on a sheet that starts empty, with the current
\* header or with the header of an older layout.
LegacyHeader == << "PRODUCT_ID", "POSITION", "TITLE" >>

\* A data row written earlier (by hand or by an older version): the key, the
\* POSITION cell as text, the other cells empty
StoredRow(product_url, position_cell) ==
    [i \in 1..Len(SHEET_COLUMNS) |->
        IF i = ColumnIndex("PRODUCT_URL") THEN product_url
        ELSE IF i = ColumnIndex("POSITION") THEN position_cell
        ELSE ""]

\* The worksheets a writer can find: empty; header only (current or older
\* layout); current header over data rows whose POSITION cells are integers,
\* empty or not a number; a first row left empty above a data row; a header
\* of the older layout over a data row.
InitialSheets ==
    { << >>,
      << SHEET_COLUMNS >>,
      << LegacyHeader >>,
      << SHEET_COLUMNS,
         StoredRow(urljoin("", "/tovar/p1"), "7"),
         StoredRow(urljoin("", "/tovar/old"), "n/a"),
         StoredRow(urljoin("", "/tovar/p2"), "3"),
         StoredRow(urljoin("", "/tovar/gone"), "") >>,
      << << >>, StoredRow(urljoin("", "/tovar/p1"), "1") >>,
      << LegacyHeader, StoredRow(urljoin("", "/tovar/p1"), "2") >> }

\* Rows the orchestrator can build for a product: two prices, with or
\* without a hosted image
SheetRecords ==
    { build_record(u, "Cognac", price, "France", 70, 4000, NoNumber, "Brand",
                   None, "notes", None, << "Ugni Blanc" >>, None, None,
                   IF u = urljoin("", "/tovar/p1") THEN 1 ELSE 2,
                   img, IF img = None THEN "error" ELSE "new",
                   IF img = None THEN "no image" ELSE None) :
        u \in ProductUrls, price \in {999950, 1000000},
        img \in {None, HostedDirect(ImageUrlA)} }

InitSheets ==
    /\ products = EmptyTable
    /\ images = EmptyTable
    /\ sheet \in InitialSheets
    /\ conn = "none"
    /\ settings \in {st \in SettingsSet : st.freeimage_api_key = ""}
    /\ version = [u \in ProductUrls |-> 1]
    /\ pc = "sheets"
    /\ runs = 0
    /\ loc = NoLocals
    /\ counters = NoCounters
    /\ log = NoLog
    /\ media_call = NoMediaCall
    /\ hosted = [c \in Contents |-> 0]
    /\ sink_call = NoSinkCall
    /\ latest = EmptyTable
    /\ calls = 0
    /\ etag_call = NoEtagCall
    /\ faults = 0
    /\ store_log = NoStoreLog
    /\ post_call = NoPostCall
    /\ crawl = NoCrawl
    /\ avail_call = NoAvailCall
    /\ norm_call = NoNormCall

UpsertCall ==
    /\ pc = "sheets"
    /\ calls < MaxCalls
    /\ calls' = calls + 1
    /\ \E record \in SheetRecords, failing \in SinkFailures :
        LET out == upsert(sheet, conn, settings.sink_enabled, record, failing)
        IN  /\ sheet' = out.sheet
            /\ conn' = out.conn
            /\ sink_call' = RecordSinkCall("upsert", settings.sink_enabled,
                                           failing, out, record.unique_key,
                                           sheet, conn)
            /\ latest' = RecordLatest(latest, record, out)
    /\ UNCHANGED << post_call, crawl, avail_call, store_log, norm_call, etag_call, products, images, settings, version, pc, runs, loc, counters,
                    log, media_call, hosted, faults >>

GetLastPositionCall ==
    /\ pc = "sheets"
    /\ calls < MaxCalls
    /\ calls' = calls + 1
    /\ \E failing \in SinkFailures :
        LET out == get_last_position(sheet, conn, settings.sink_enabled, failing)
        IN  /\ sheet' = out.sheet
            /\ conn' = out.conn
            /\ sink_call' = RecordSinkCall("get_last_position",
                                           settings.sink_enabled, failing, out,
                                           None, sheet, conn)
    /\ UNCHANGED << post_call, crawl, avail_call, store_log, norm_call, etag_call, products, images, settings, version, pc, runs, loc, counters,
                    log, media_call, hosted, latest, faults >>

NextSheets == UpsertCall \/ GetLastPositionCall

SpecSheets == InitSheets /\ [][NextSheets]_vars

\* --------------------------------- fingerprints of one product over time
\* The keys of the payload product_etag serializes, by the attribute of
\* ProductNormalized each is read from (image_url is read from hero_image_url)
ContentFields ==
    {"product_url", "product_id", "title", "price_value", "price_currency",
     "country", "volume_l", "abv_percent", "availability", "age_years", "brand",
     "producer", "sku", "tasting_notes", "gastronomy", "grapes", "maturation",
     "awards", "gift_packaging", "breadcrumbs", "hero_image_url"}

\* Values an attribute of ProductNormalized can take, by its declared type
FieldValues(f) ==
    IF f = "product_url"
        THEN ProductUrls \cup {urljoin("", "/tovar/old")}
    ELSE IF f \in {"price_value", "volume_l", "abv_percent"}
        THEN {NoNumber, 0, 5, 70, 75, 4000, 999950, 1000000}
    ELSE IF f = "age_years" THEN {NoNumber, 0, 1000, 1200}
    ELSE IF f = "availability" THEN {None, "True", "False"}
    ELSE IF f \in {"grapes", "breadcrumbs"}
        THEN {<< >>, << "Catalogue" >>, << "Ugni Blanc" >>,
              << "Ugni Blanc", "Colombard" >>, << "Colombard", "Ugni Blanc" >>}
    ELSE IF f = "hero_image_url" THEN SourceUrls \cup {None}
    ELSE {None, "", "Cognac", "Other"}

\* The records parse + normalize yield for the links of the crawl
CrawledRecords ==
    {NormalizedOf(CrawlOrder[q], v) : q \in 1..Len(CrawlOrder), v \in PageVersions}

InitEtag ==
    /\ \E base \in CrawledRecords :
        /\ loc = [NoLocals EXCEPT !.normalized = Some(base)]
        /\ products = upsert_product(EmptyTable, base.product_url,
                                      base.product_id, product_etag(base), None)
    /\ images = EmptyTable
    /\ sheet = << >>
    /\ conn = "none"
    /\ settings = [freeimage_api_key |-> "", sink_enabled |-> FALSE]
    /\ version = [u \in ProductUrls |-> 1]
    /\ pc = "etag"
    /\ runs = 0
    /\ counters = NoCounters
    /\ log = NoLog
    /\ media_call = NoMediaCall
    /\ hosted = [c \in Contents |-> 0]
    /\ sink_call = NoSinkCall
    /\ latest = EmptyTable
    /\ calls = 0
    /\ etag_call = NoEtagCall
    /\ faults = 0
    /\ store_log = NoStoreLog
    /\ post_call = NoPostCall
    /\ crawl = NoCrawl
    /\ avail_call = NoAvailCall
    /\ norm_call = NoNormCall

\* Lines 77-84 and 186-191 of run() for a product met again as `normalized`,
\* its previous visit having left `previous` and the ProductState of it
Revisit(previous, normalized) ==
    LET etag_hash == product_etag(normalized)
        product_record == get_product(products, normalized.product_url)
    IN  /\ etag_call' =
                [made |-> TRUE, before |-> Some(previous),
                 after |-> Some(normalized),
                 etag_before |-> product_etag(previous),
                 etag_after |-> etag_hash,
                 need_update |-> need_update(product_record, etag_hash)]
        /\ loc' = [loc EXCEPT !.normalized = Some(normalized),
                              !.etag_hash = etag_hash]
        /\ products' = upsert_product(products, normalized.product_url,
                            IF Truthy(normalized.product_id)
                                THEN normalized.product_id
                                ELSE normalized.product_url,
                            etag_hash, None)

\* The product page shows another value in one content field
ContentEdit ==
    /\ pc = "etag"
    /\ calls < MaxEdits
    /\ calls' = calls + 1
    /\ \E f \in ContentFields :
        \E v \in FieldValues(f) \ {loc.normalized[1][f]} :
            Revisit(loc.normalized[1], [loc.normalized[1] EXCEPT ![f] = v])
    /\ UNCHANGED << post_call, crawl, avail_call, store_log, norm_call, images, sheet, conn, settings, version, pc, runs, counters,
                    log, media_call, hosted, sink_call, latest, faults >>

\* The same content is met at another place of the crawl (another category
\* page, hence another crawl position), with other gallery images, and
\* carrying the image fields run() resolved for it (lines 138-141)
Relocation ==
    /\ pc = "etag"
    /\ calls < MaxEdits
    /\ calls' = calls + 1
    /\ \E page \in 1..Len(Catalog), resolved \in BOOLEAN, gallery \in 0..1 :
        Revisit(loc.normalized[1],
            [loc.normalized[1] EXCEPT
                !.page_number = Catalog[page].page_number,
                !.source_page_url = Catalog[page].url,
                !.image_urls = IF gallery = 0 THEN << >> ELSE << ImageUrlC >>,
                !.image_direct_url =
                    IF resolved THEN HostedDirect(ImageUrlA) ELSE None,
                !.image_viewer_url =
                    IF resolved THEN HostedViewer(ImageUrlA) ELSE None,
                !.image_thumb_url =
                    IF resolved THEN HostedThumb(ImageUrlA) ELSE None,
                !.image_sha256 =
                    IF resolved THEN _sha256("bytesA") ELSE None])
    /\ UNCHANGED << post_call, crawl, avail_call, store_log, norm_call, images, sheet, conn, settings, version, pc, runs, counters,
                    log, media_call, hosted, sink_call, latest, faults >>

NextEtag == ContentEdit \/ Relocation

SpecEtag == InitEtag /\ [][NextEtag]_vars

\* ------------------------------------------ calls on one StateRepository
\* A repository is opened on a file that does not exist yet, on one of the
\* current layout, or on one whose images table has the older layout, and
\* then serves any sequence of upsert_product and save_image calls.
LegacyTables ==
    LET rowA == LegacyImageRow(_sha256("bytesA"), "drive-1",
                               HostedDirect(ImageUrlA), ImageUrlA)
        rowC == LegacyImageRow(_sha256("bytesC"), "drive-2",
                               HostedDirect(ImageUrlC), ImageUrlC)
    IN  { << >>,
          [h \in {rowA.sha256} |-> rowA],
          [h \in {rowA.sha256, rowC.sha256} |->
              IF h = rowA.sha256 THEN rowA ELSE rowC] }

StoreFiles ==
    { [NoStoreLog EXCEPT !.layout = "new"],
      [NoStoreLog EXCEPT !.layout = "current"] }
    \cup { [NoStoreLog EXCEPT !.layout = "legacy", !.legacy = t] :
              t \in LegacyTables }

InitState ==
    /\ products = EmptyTable
    /\ images = EmptyTable
    /\ sheet = << >>
    /\ conn = "none"
    /\ settings = [freeimage_api_key |-> "", sink_enabled |-> FALSE]
    /\ version = [u \in ProductUrls |-> 1]
    /\ pc = "closed"
    /\ runs = 0
    /\ loc = NoLocals
    /\ counters = NoCounters
    /\ log = NoLog
    /\ media_call = NoMediaCall
    /\ hosted = [c \in Contents |-> 0]
    /\ sink_call = NoSinkCall
    /\ latest = EmptyTable
    /\ calls = 0
    /\ etag_call = NoEtagCall
    /\ faults = 0
    /\ store_log \in StoreFiles
    /\ post_call = NoPostCall
    /\ crawl = NoCrawl
    /\ avail_call = NoAvailCall
    /\ norm_call = NoNormCall

\* StateRepository(db_path): the tables are created or brought to the current
\* layout
OpenStore ==
    /\ pc = "closed"
    /\ pc' = "state"
    /\ \E keeps_public \in BOOLEAN :
        images' = IF store_log.layout = "legacy"
                     THEN migrate_images(store_log.legacy, keeps_public)
                     ELSE EmptyTable
    /\ store_log' = [store_log EXCEPT !.opened = TRUE]
    /\ UNCHANGED << post_call, crawl, avail_call, norm_call, etag_call, products, sheet, conn, settings, version, runs,
                    loc, counters, log, media_call, hosted, sink_call, latest,
                    calls, faults >>

UpsertProductCall ==
    /\ pc = "state"
    /\ calls < MaxCalls
    /\ calls' = calls + 1
    /\ \E product_url \in ProductUrls, product_id \in {"SKU-1", "SKU-2"},
          etag_hash \in {_sha256("v1"), _sha256("v2")},
          image_sha256 \in {None, _sha256("bytesA")} :
        /\ products' = upsert_product(products, product_url, product_id,
                                      etag_hash, image_sha256)
        /\ store_log' = [store_log EXCEPT
                !.product_writes =
                    [u \in DOMAIN @ \cup {product_url} |->
                        IF u = product_url
                            THEN [product_id |-> product_id,
                                  etag_hash |-> etag_hash,
                                  image_sha256 |-> image_sha256]
                            ELSE @[u]],
                !.overwrote = @ \/
                    /\ product_url \in DOMAIN products
                    /\ products[product_url].etag_hash # etag_hash]
    /\ UNCHANGED << post_call, crawl, avail_call, norm_call, etag_call, images, sheet, conn, settings, version, pc, runs,
                    loc, counters, log, media_call, hosted, sink_call, latest,
                    faults >>

SaveImageCall ==
    /\ pc = "state"
    /\ calls < MaxCalls
    /\ calls' = calls + 1
    /\ \E sha \in {_sha256("bytesA"), _sha256("bytesC")},
          source \in {ImageUrlA, ImageUrlB},
          original_url \in {ImageUrlA, ImageUrlB, ImageUrlC} :
        /\ images' = save_image(images, sha, HostedDirect(source),
                                HostedViewer(source), HostedThumb(source),
                                original_url)
        /\ store_log' = [store_log EXCEPT
                !.image_writes =
                    [h \in DOMAIN @ \cup {sha} |->
                        IF h = sha
                            THEN [direct_url |-> HostedDirect(source),
                                  viewer_url |-> HostedViewer(source),
                                  thumb_url |-> HostedThumb(source),
                                  original_url |-> original_url]
                            ELSE @[h]],
                !.overwrote = @ \/
                    /\ sha \in DOMAIN images
                    /\ images[sha].original_url # original_url]
    /\ UNCHANGED << post_call, crawl, avail_call, norm_call, etag_call, products, sheet, conn, settings, version, pc, runs,
                    loc, counters, log, media_call, hosted, sink_call, latest,
                    faults >>

NextState == OpenStore \/ UpsertProductCall \/ SaveImageCall

SpecState == InitState /\ [][NextState]_vars

\* ------------------------------------------ app/utils/text.py, on the
\* texts of RawProducts (in the texts "l" stands for the Cyrillic unit
\* letter of VOLUME_RE)
clean_text(value) ==
    IF value = None THEN None
    ELSE IF value \in {"", "  "} THEN None
    ELSE IF value = " Sample  notes " THEN "Sample notes"
    ELSE value

extract_price_value(value) ==
    IF ~Truthy(value) THEN NoNumber
    ELSE IF value = "9 999 RUB" THEN 999900
    ELSE NoNumber

extract_float_with_unit(value) ==
    IF ~Truthy(value) THEN NoNumber
    ELSE IF value = "0.7 l" THEN 70
    ELSE NoNumber

extract_abv_percent(value) ==
    IF ~Truthy(value) THEN NoNumber
    ELSE IF value = "40%" THEN 4000
    ELSE NoNumber

\* ------------------------------------------ app/normalizer/service.py
\* Python's `a or b` on Optional[float]: None and 0.0 are falsy
FloatOr(a, b) == IF a # NoNumber /\ a # 0 THEN a ELSE b

\* ProductNormalizer.__init__: the client given, else one built from the
\* key, else none
ProductNormalizer(openai_api_key, llm_client) ==
    IF llm_client = "present" \/ Truthy(openai_api_key)
        THEN "present" ELSE "absent"

LlmModes == {"price", "volume_abv", "section"}

\* What the client returns for a mode when its request succeeds
LlmPayload(mode) ==
    IF mode = "price"
        THEN [price_value |-> 1250000, currency |-> "RUB", volume_l |-> NoNumber,
              abv |-> NoNumber, text |-> None]
    ELSE IF mode = "volume_abv"
        THEN [price_value |-> NoNumber, currency |-> None, volume_l |-> 50,
              abv |-> 1250, text |-> None]
    ELSE [price_value |-> NoNumber, currency |-> None, volume_l |-> NoNumber,
          abv |-> NoNumber, text |-> "Recovered notes"]

\* A variant of _maybe_call_llm that does not count a failed call
_maybe_call_llm_uncounted(client, mode, answers, metrics) ==
    IF client = "absent"
        THEN [payload |-> NoRecord, metrics |-> metrics, requested |-> {}]
    ELSE IF answers[mode] = "payload"
        THEN [payload |-> Some(LlmPayload(mode)),
              metrics |-> [metrics EXCEPT !.llm_calls = @ + 1],
              requested |-> {mode}]
    ELSE [payload |-> NoRecord, metrics |-> metrics, requested |-> {mode}]

\* _maybe_call_llm (lines 230-253); answers[mode] says whether the client
\* returns a payload or raises LLMUnavailableError
_maybe_call_llm(client, mode, answers, metrics) ==
    IF client = "absent"
        THEN [payload |-> NoRecord, metrics |-> metrics, requested |-> {}]
    ELSE IF answers[mode] = "payload"
        THEN [payload |-> Some(LlmPayload(mode)),
              metrics |-> [metrics EXCEPT !.llm_calls = @ + 1],
              requested |-> {mode}]
    ELSE [payload |-> NoRecord,
          metrics |-> [metrics EXCEPT !.llm_failures = @ + 1],
          requested |-> {mode}]

NoLlmCall(metrics) ==
    [payload |-> NoRecord, metrics |-> metrics, requested |-> {}]

\* _normalize_price (lines 110-125)
_normalize_price(raw, client, answers, metrics) ==
    LET price_value == IF raw.price_value = NoNumber /\ Truthy(raw.price_text)
                          THEN extract_price_value(raw.price_text)
                          ELSE raw.price_value
        price_currency == IF raw.price_currency = None /\ price_value # NoNumber
                             THEN "RUB" ELSE raw.price_currency
        llm == IF price_value = NoNumber /\ Truthy(raw.price_text)
                  THEN _maybe_call_llm(client, "price", answers, metrics)
                  ELSE NoLlmCall(metrics)
    IN  [price_value |-> IF IsSome(llm.payload)
                            THEN llm.payload[1].price_value ELSE price_value,
         price_currency |-> IF IsSome(llm.payload)
                               THEN clean_text(llm.payload[1].currency)
                               ELSE price_currency,
         metrics |-> llm.metrics, requested |-> llm.requested]

\* _normalize_volume_abv (lines 127-142)
_normalize_volume_abv(raw, client, answers, metrics) ==
    LET volume_l == FloatOr(raw.volume_l, extract_float_with_unit(raw.volume_text))
        abv_percent == FloatOr(raw.abv_percent, extract_abv_percent(raw.abv_text))
        llm == IF /\ volume_l = NoNumber \/ abv_percent = NoNumber
                  /\ Truthy(raw.volume_text) \/ Truthy(raw.abv_text)
                  THEN _maybe_call_llm(client, "volume_abv", answers, metrics)
                  ELSE NoLlmCall(metrics)
    IN  [volume_l |-> IF IsSome(llm.payload)
                         THEN FloatOr(volume_l, llm.payload[1].volume_l)
                         ELSE volume_l,
         abv_percent |-> IF IsSome(llm.payload)
                            THEN FloatOr(abv_percent, llm.payload[1].abv)
                            ELSE abv_percent,
         metrics |-> llm.metrics, requested |-> llm.requested]

\* _section_with_llm (lines 200-223), the text it returns
_section_with_llm(section, client, answers, metrics) ==
    IF section = NoRecord
        THEN [text |-> None, metrics |-> metrics, requested |-> {}]
    ELSE
    LET text == clean_text(section[1].text)
        llm == IF ~Truthy(text) /\ section[1].items = << >>
                  /\ Truthy(section[1].html)
                  THEN _maybe_call_llm(client, "section", answers, metrics)
                  ELSE NoLlmCall(metrics)
    IN  [text |-> IF IsSome(llm.payload)
                     THEN clean_text(llm.payload[1].text) ELSE text,
         metrics |-> llm.metrics, requested |-> llm.requested]

\* normalize (lines 39-108): the price, volume / strength and tasting-notes
\* fields of the record, the metrics and the modes the client was asked for
normalize(raw, client, answers, metrics) ==
    LET price == _normalize_price(raw, client, answers, metrics)
        volume == _normalize_volume_abv(raw, client, answers, price.metrics)
        tasting == _section_with_llm(raw.tasting_notes, client, answers,
                                     volume.metrics)
    IN  [normalized |->
            [price_value |-> price.price_value,
             price_currency |-> price.price_currency,
             volume_l |-> volume.volume_l,
             abv_percent |-> volume.abv_percent,
             tasting_notes |-> clean_text(tasting.text)],
         metrics |-> [tasting.metrics EXCEPT !.items_processed = @ + 1],
         requested |-> price.requested \cup volume.requested
                       \cup tasting.requested]

\* ProductSection(title, text, html, items)
ProductSection(title, text, html, items) ==
    [title |-> title, text |-> text, html |-> html, items |-> items]

\* Raw cards the parser can hand over: the price as text, already numeric or
\* missing; the volume and strength as text or missing; the tasting-notes
\* block missing, with text, or with markup only
RawProducts ==
    [price_text : {None, "9 999 RUB", "on request"},
     price_value : {NoNumber, 999900},
     price_currency : {None},
     volume_text : {None, "0.7 l", "bottle"},
     volume_l : {NoNumber},
     abv_text : {None, "40%"},
     abv_percent : {NoNumber},
     tasting_notes : {NoRecord,
                      Some(ProductSection("Notes", " Sample  notes ", "<p/>", << >>)),
                      Some(ProductSection("Notes", "  ", "<p>x</p>", << >>))}]

LlmAnswers == [LlmModes -> {"payload", "unavailable"}]

\* ------------------------------------------- normalize calls of one
\* ProductNormalizer, built with or without an LLM client
InitNormalize ==
    /\ products = EmptyTable
    /\ images = EmptyTable
    /\ sheet = << >>
    /\ conn = "none"
    /\ settings = [freeimage_api_key |-> "", sink_enabled |-> FALSE]
    /\ version = [u \in ProductUrls |-> 1]
    /\ pc = "normalize"
    /\ runs = 0
    /\ loc = NoLocals
    /\ counters = NoCounters
    /\ log = NoLog
    /\ media_call = NoMediaCall
    /\ hosted = [c \in Contents |-> 0]
    /\ sink_call = NoSinkCall
    /\ latest = EmptyTable
    /\ calls = 0
    /\ etag_call = NoEtagCall
    /\ faults = 0
    /\ store_log = NoStoreLog
    /\ post_call = NoPostCall
    /\ crawl = NoCrawl
    /\ avail_call = NoAvailCall
    /\ \E openai_api_key \in {"", "sk-key"}, llm_client \in {"absent", "present"} :
        norm_call = [NoNormCall EXCEPT
                        !.client = ProductNormalizer(openai_api_key, llm_client)]

NormalizeCall ==
    /\ pc = "normalize"
    /\ calls < MaxCalls
    /\ calls' = calls + 1
    /\ \E raw \in RawProducts, answers \in LlmAnswers :
        LET out == normalize(raw, norm_call.client, answers, norm_call.after)
        IN  /\ \A m \in LlmModes \ out.requested : answers[m] = "payload"
            /\ norm_call' =
                    [made |-> TRUE, client |-> norm_call.client,
                     result |-> Some(out.normalized),
                     requested |-> out.requested,
                     failed |-> {m \in out.requested :
                                    answers[m] = "unavailable"},
                     before |-> norm_call.after, after |-> out.metrics]
    /\ UNCHANGED << post_call, crawl, avail_call, store_log, etag_call, products, images, sheet, conn, settings, version,
                    pc, runs, loc, counters, log, media_call, hosted, sink_call,
                    latest, faults >>

NextNormalize == NormalizeCall

SpecNormalize == InitNormalize /\ [][NextNormalize]_vars

\* Nothing has run; the process is at `position`, with or without a key
InitIdle(position, api_keys) ==
    /\ products = EmptyTable
    /\ images = EmptyTable
    /\ sheet = << >>
    /\ conn = "none"
    /\ settings \in [freeimage_api_key : api_keys, sink_enabled : {FALSE}]
    /\ version = [u \in ProductUrls |-> 1]
    /\ pc = position
    /\ runs = 0
    /\ loc = NoLocals
    /\ counters = NoCounters
    /\ log = NoLog
    /\ media_call = NoMediaCall
    /\ hosted = [c \in Contents |-> 0]
    /\ sink_call = NoSinkCall
    /\ latest = EmptyTable
    /\ calls = 0
    /\ etag_call = NoEtagCall
    /\ faults = 0
    /\ store_log = NoStoreLog
    /\ norm_call = NoNormCall
    /\ post_call = NoPostCall
    /\ crawl = NoCrawl
    /\ avail_call = NoAvailCall

\* ------------------------------------------ CategoryCrawler.crawl over
\* ------------------------------------------ one site
\* The category URL, the URLs of its further pages, and a pagination URL
\* whose PAGEN_1 value is not a number
category_url == "http://shop/filtr/drinktype-konyak/"
PageUrl(n) == category_url \o "?PAGEN_1=" \o ToString(n)
OddPageUrl == category_url \o "?PAGEN_1=last"
PaginationUrls == {PageUrl(n) : n \in 2..MaxPage} \cup {OddPageUrl}
CategoryUrls == {category_url} \cup PaginationUrls

\* _extract_page_number; None is 0, which every reader of the result takes
\* for None (`or`, `and`)
_extract_page_number(url) ==
    IF url = category_url THEN 1
    ELSE IF url = OddPageUrl THEN 0
    ELSE CHOOSE n \in 2..MaxPage : PageUrl(n) = url

\* A site: final[u] is page.url after page.goto(u) (u itself unless the
\* site redirects), hrefs[p] the pagination links of the page at p
Sites ==
    { site \in [final : [CategoryUrls -> CategoryUrls],
                hrefs : [CategoryUrls -> SUBSET PaginationUrls]] :
        /\ \A u \in CategoryUrls : site.final[site.final[u]] = site.final[u]
        /\ \A u \in CategoryUrls : site.final[u] # u => site.hrefs[u] = {} }

\* candidate_urls.sort(key = page number or inf)
RECURSIVE SortByPageNumber(_)
SortByPageNumber(urls) ==
    IF urls = {} THEN << >>
    ELSE LET Key(u) == IF _extract_page_number(u) = 0
                          THEN MaxPage + 1 ELSE _extract_page_number(u)
             first == CHOOSE u \in urls : \A v \in urls : Key(u) <= Key(v)
         IN  << first >> \o SortByPageNumber(urls \ {first})

\* _collect_pagination_links(page, current_page), hrefs the links matching
\* the selector
_collect_pagination_links(hrefs, current_page) ==
    SortByPageNumber({u \in hrefs :
        ~(/\ current_page # 0
          /\ _extract_page_number(u) # 0
          /\ _extract_page_number(u) <= current_page)})

\* The loop `for new_page_url in discovered_pages` from link number i on
RECURSIVE EnqueueFrom(_, _, _)
EnqueueFrom(c, discovered_pages, i) ==
    IF i > Len(discovered_pages) THEN c
    ELSE IF discovered_pages[i] \in c.visited \/ discovered_pages[i] \in c.queued
        THEN EnqueueFrom(c, discovered_pages, i + 1)
    ELSE EnqueueFrom([c EXCEPT !.queue = Append(@, discovered_pages[i]),
                               !.queued = @ \cup {discovered_pages[i]}],
                     discovered_pages, i + 1)

InitCrawl == InitIdle("crawl", {""})

\* Lines 42-48: the page is opened and the category URL queued
CrawlStart ==
    /\ pc = "crawl"
    /\ ~crawl.started
    /\ \E site \in Sites :
        crawl' = [NoCrawl EXCEPT !.started = TRUE, !.site = site,
                                 !.queue = << category_url >>,
                                 !.queued = {category_url}]
    /\ UNCHANGED << products, images, sheet, conn, settings, version, pc, runs,
                    loc, counters, log, media_call, hosted, sink_call, latest,
                    calls, etag_call, faults, store_log, norm_call, post_call,
                    avail_call >>

\* Lines 51-56: the next URL has been visited and is dropped
CrawlSkipVisited ==
    /\ pc = "crawl"
    /\ crawl.started /\ ~crawl.closed
    /\ crawl.queue # << >>
    /\ Head(crawl.queue) \in crawl.visited
    /\ crawl' = [crawl EXCEPT !.queue = Tail(@),
                              !.queued = @ \ {Head(crawl.queue)}]
    /\ UNCHANGED << products, images, sheet, conn, settings, version, pc, runs,
                    loc, counters, log, media_call, hosted, sink_call, latest,
                    calls, etag_call, faults, store_log, norm_call, post_call,
                    avail_call >>

\* Lines 51-97: the next URL is navigated to, its page read, the new
\* pagination links queued and the page's final URL marked visited
CrawlNavigate ==
    /\ pc = "crawl"
    /\ crawl.started /\ ~crawl.closed
    /\ crawl.queue # << >>
    /\ Head(crawl.queue) \notin crawl.visited
    /\ Len(crawl.navigations) < MaxNavigations
    /\ LET target_url == Head(crawl.queue)
           page_url == crawl.site.final[target_url]
           fallback_page_counter == crawl.fallback_page_counter + 1
           current_page_number ==
                IF _extract_page_number(page_url) # 0
                    THEN _extract_page_number(page_url)
                    ELSE fallback_page_counter
           discovered_pages ==
                _collect_pagination_links(crawl.site.hrefs[page_url],
                                          current_page_number)
           popped == [crawl EXCEPT
                        !.queue = Tail(@),
                        !.queued = @ \ {target_url},
                        !.fallback_page_counter = fallback_page_counter,
                        !.navigations = Append(@, target_url)]
           queued_more == EnqueueFrom(popped, discovered_pages, 1)
       IN  crawl' = [queued_more EXCEPT !.visited = @ \cup {page_url}]
    /\ UNCHANGED << products, images, sheet, conn, settings, version, pc, runs,
                    loc, counters, log, media_call, hosted, sink_call, latest,
                    calls, etag_call, faults, store_log, norm_call, post_call,
                    avail_call >>

\* Lines 51 and 98-99: the queue is empty, the page is closed
CrawlClose ==
    /\ pc = "crawl"
    /\ crawl.started /\ ~crawl.closed
    /\ crawl.queue = << >>
    /\ crawl' = [crawl EXCEPT !.closed = TRUE]
    /\ UNCHANGED << products, images, sheet, conn, settings, version, pc, runs,
                    loc, counters, log, media_call, hosted, sink_call, latest,
                    calls, etag_call, faults, store_log, norm_call, post_call,
                    avail_call >>

NextCrawl == CrawlStart \/ CrawlSkipVisited \/ CrawlNavigate \/ CrawlClose

SpecCrawl == InitCrawl /\ [][NextCrawl]_vars

\* ------------------------------------------ _normalize_availability over
\* ------------------------------------------ availability texts
\* An availability text is a sequence of words, written in Latin letters:
\* "v nalichii" (in stock), "net v nalichii" (not in stock), "ozhidaetsya"
\* (expected), "pod zakaz" (to order); "skoro" stands for any other word and
\* "Net" for a word with a capital letter.
AvailabilityWords ==
    {"net", "Net", "v", "nalichii", "ozhidaetsya", "pod", "zakaz", "skoro"}

RECURSIVE TextsUpTo(_)
TextsUpTo(n) ==
    IF n = 0 THEN {<< >>}
    ELSE LET shorter == TextsUpTo(n - 1)
         IN  shorter \cup {Append(t, w) : t \in shorter, w \in AvailabilityWords}

\* The availability_text of a RawProduct: None, or a text
AvailabilityTexts == {NoRecord} \cup {Some(t) : t \in TextsUpTo(MaxWords)}

\* str.lower
lower(text) == [i \in DOMAIN text |-> IF text[i] = "Net" THEN "net" ELSE text[i]]

\* phrase in text
Contains(text, phrase) ==
    \E i \in 1..(Len(text) - Len(phrase) + 1) :
        SubSeq(text, i, i + Len(phrase) - 1) = phrase

\* _normalize_availability; its result is "True", "False" or "None"
_normalize_availability(availability_text) ==
    IF availability_text = NoRecord \/ availability_text[1] = << >>
        THEN "None"
    ELSE LET lowered == lower(availability_text[1])
         IN  IF Contains(lowered, << "v", "nalichii" >>) THEN "True"
             ELSE IF \/ Contains(lowered, << "net", "v", "nalichii" >>)
                     \/ Contains(lowered, << "ozhidaetsya" >>)
                     \/ Contains(lowered, << "pod", "zakaz" >>)
                 THEN "False"
             ELSE "None"

InitAvailability == InitIdle("availability", {""})

AvailabilityCall ==
    /\ pc = "availability"
    /\ ~avail_call.made
    /\ \E availability_text \in AvailabilityTexts :
        avail_call' =
            [made |-> TRUE,
             availability_text |-> IF availability_text = NoRecord
                                      THEN << >> ELSE availability_text[1],
             result |-> _normalize_availability(availability_text)]
    /\ UNCHANGED << products, images, sheet, conn, settings, version, pc, runs,
                    loc, counters, log, media_call, hosted, sink_call, latest,
                    calls, etag_call, faults, store_log, norm_call, post_call,
                    crawl >>

NextAvailability == AvailabilityCall

SpecAvailability == InitAvailability /\ [][NextAvailability]_vars

\* ------------------------------------------ hosting API calls, one per
\* ------------------------------------------ behaviour, over every network

InitPost == InitIdle("post", ApiKeys)

PostCall ==
    /\ pc = "post"
    /\ ~post_call.made
    /\ \E attempts \in [1..(freeimage_max_retries + 1) -> NetworkAttempts] :
            LET out == _post_to_freeimage(settings.freeimage_api_key,
                           [i \in DOMAIN attempts |->
                               AttemptOutcomeOf(attempts[i])])
            IN  post_call' = [made |-> TRUE,
                              api_key |-> settings.freeimage_api_key,
                              attempts |-> attempts, kind |-> out.kind,
                              posts |-> out.posts, waits |-> out.waits]
    /\ UNCHANGED << products, images, sheet, conn, settings, version, pc, runs,
                    loc, counters, log, media_call, hosted, sink_call, latest,
                    calls, etag_call, faults, store_log, norm_call, crawl,
                    avail_call >>

NextPost == PostCall

SpecPost == InitPost /\ [][NextPost]_vars

\* ================================================================ claims
RunEnded == log.result \in {"completed", "aborted"}

\* Links of the category pages the crawler has yielded so far
RECURSIVE LinksYielded(_)
LinksYielded(page) ==
    IF page = 0 THEN 0
    ELSE LinksYielded(page - 1)
         + Len(_collect_product_links(Catalog[page].url,
                                      Catalog[page].page_number,
                                      Catalog[page].hrefs))

Touched ==
    log.taken \cup log.parsed \cup log.fingerprinted \cup log.imaged
    \cup log.upserted \cup log.persisted

\* C1: when a run has ended, with p the resume position read at its start, no
\* link at crawl position <= p was parsed, fingerprinted, sent to the image
\* pipeline, upserted or persisted, and every link at a position > p of the
\* pages the crawler yielded was fingerprinted.
C1_ResumeSkipsUpToAndCoversAfter ==
    RunEnded =>
        /\ \A q \in 1..loc.last_position : q \notin Touched
        /\ \A q \in 1..LinksYielded(loc.page) :
                q > loc.last_position => q \in log.fingerprinted

\* C2: the sheet holds at most one data row per product URL, and that row is
\* the row of the most recent upsert that wrote for that key.
C2_OneRowPerKeyWithLatestValues ==
    \A k \in ProductUrls :
        LET rows == {i \in 2..Len(sheet) : sheet[i][ColumnIndex("PRODUCT_URL")] = k}
        IN  /\ Cardinality(rows) <= 1
            /\ k \in DOMAIN latest => \A i \in rows : sheet[i] = latest[k]

\* The current product has been fingerprinted and its stored ProductState
\* carries the fingerprint just computed
UnchangedProduct ==
    /\ pc \in {"image", "upsert", "persist", "link"}
    /\ IsSome(loc.normalized)
    /\ IsSome(loc.product_record)
    /\ loc.product_record[1].etag_hash = product_etag(loc.normalized[1])

\* Products counted so far: fingerprinted and no longer before their counter
Counted ==
    log.fingerprinted
    \ (IF pc \in {"image", "upsert"} THEN {loc.current_position} ELSE {})

\* C3: a product whose stored fingerprint equals the new one never enters the
\* image or sink step, builds no row, is counted as skipped, and the
\* ProductState written for it keeps the fingerprint and the image hash.
C3_UnchangedSkipsSinkAndImage ==
    UnchangedProduct =>
        /\ pc \in {"persist", "link"}
        /\ loc.current_position > loc.last_position
        /\ loc.current_position \notin log.imaged \cup log.upserted
        /\ loc.record = NoRecord /\ loc.media_result = NoRecord
        /\ counters.inserted + counters.updated <= Cardinality(log.upserted)
        /\ counters.inserted + counters.updated + counters.skipped
                = Cardinality(Counted)
        /\ pc = "link" =>
            /\ loc.current_position \in log.persisted
            /\ get_product(products, loc.normalized[1].product_url)
                = Some([loc.product_record[1] EXCEPT
                            !.product_id = loc.product_id])

C3_Witness ==
    /\ UnchangedProduct
    /\ pc = "link"
    /\ loc.current_position \in log.persisted
    /\ counters.skipped > 0

\* C4: a call for a source URL whose bytes hash to a record the store already
\* holds under another source URL does not reach the binary upload and
\* returns cached = true with that hash.
C4_SameBytesOtherUrlIsCached ==
    LET url == media_call.original_url
        sha == _sha256(BytesAt(url))
    IN  ( /\ media_call.made
          /\ Truthy(url) /\ _is_supported_scheme(url)
          /\ sha \in DOMAIN media_call.before
          /\ media_call.before[sha].original_url # url )
        => /\ ~media_call.raised
           /\ ~media_call.bin_invoked
           /\ media_call.result.cached
           /\ media_call.result.sha256 = sha

\* C5: each distinct image content is accepted by the hosting service at
\* most once, whatever the calls.
C5_AtMostOneUploadPerContent ==
    \A c \in Contents : hosted[c] <= 1

\* C6: without an API key every ensure_image call returns the empty result
\* and sends no request (no POST, no GET).
C6_NoKeyNoNetwork ==
    (media_call.made /\ ~Truthy(media_call.api_key)) =>
        /\ ~media_call.raised
        /\ media_call.result = EmptyMediaResult(media_call.original_url)
        /\ media_call.posts = 0
        /\ media_call.gets = 0

\* The image hash run() resolves for the current product: the hash of the
\* media result when there is one, else the hash of the stored ProductState
ResolvedImageHash ==
    IF IsSome(loc.media_result) /\ Truthy(loc.media_result[1].sha256)
        THEN loc.media_result[1].sha256
    ELSE IF IsSome(loc.product_record)
        THEN loc.product_record[1].image_sha256
    ELSE None

\* The product at the current position has gone through all its steps
ProductDone == pc = "link" /\ IsSome(loc.normalized)

\* C7: once a product is done, whatever upsert returned and whether or not
\* ensure_image raised, ProductState of its URL holds the fingerprint just
\* computed and the resolved image hash.
C7_StatePersistedAfterEveryProduct ==
    ProductDone =>
        LET stored == get_product(products, loc.normalized[1].product_url)
        IN  /\ IsSome(stored)
            /\ stored[1].etag_hash = product_etag(loc.normalized[1])
            /\ stored[1].image_sha256 = ResolvedImageHash
            /\ loc.current_position \in log.persisted

\* ensure_image raised and the sink write was skipped, and the state is there
C7_Witness ==
    /\ ProductDone
    /\ loc.status = "skipped"
    /\ IsSome(loc.media_result)
    /\ loc.media_error \notin
        {None, "FreeImage upload skipped (missing API key or empty response)."}
    /\ loc.normalized[1].product_url \in DOMAIN products

Occurrences(seq, x) == Cardinality({i \in 1..Len(seq) : seq[i] = x})

\* C8: in one run every product taken up past the resume position is
\* persisted, and no product URL is persisted twice.
C8_PersistedExactlyOncePerProduct ==
    /\ \A u \in ProductUrls : Occurrences(log.persisted_urls, u) <= 1
    /\ RunEnded => log.taken \subseteq log.persisted

\* C9: after an exception in the processing of one product, every later
\* product of the crawl is still taken up, and what was persisted before
\* stays persisted.
C9_FailingProductDoesNotStopRun ==
    (RunEnded /\ log.failed_at > 0) =>
        /\ \A q \in (log.failed_at + 1)..Len(CrawlOrder) : q \in log.taken
        /\ \A i \in 1..Len(log.persisted_urls) :
                log.persisted_urls[i] \in DOMAIN products

\* C10: a sink call during which an API call fails returns skipped (upsert)
\* or 0 (get_last_position) and does not raise.
C10_SinkFailureDegradesToSkipped ==
    (sink_call.made /\ sink_call.failing # {}) =>
        /\ ~sink_call.raised
        /\ sink_call.op = "upsert" => sink_call.status = "skipped"
        /\ sink_call.op = "get_last_position" => sink_call.value = 0

\* Integers in the POSITION cells of the data rows (rows 2..) of a worksheet
PositionsIn(sh) ==
    { IntOf(sh[r][ColumnIndex("POSITION")]) :
        r \in {q \in 2..Len(sh) : Len(sh[q]) >= ColumnIndex("POSITION")} } \ {-1}

SetMax(S) == CHOOSE m \in S : \A x \in S : x <= m
SetMin(S) == CHOOSE m \in S : \A x \in S : m <= x

HasRow(sh, product_url) ==
    \E r \in 2..Len(sh) :
        /\ Len(sh[r]) >= ColumnIndex("PRODUCT_URL")
        /\ sh[r][ColumnIndex("PRODUCT_URL")] = product_url

\* A run has read its resume position and has not yet asked for a page
RunStarting == pc = "crawl" /\ loc.page = 0 /\ log.result = "running"

\* C12: when a run starts with resume position p, the sink has a row for the
\* product at every crawl position 1..p, whatever the earlier runs did.
C12_ResumePositionIsFullyWritten ==
    RunStarting =>
        \A q \in 1..loc.last_position :
            q <= Len(CrawlOrder) => HasRow(sheet, CrawlOrder[q].url)

\* C13: when a run completes with the sink enabled and no sink call of the run
\* failing, the sink has a row for every product at a crawl position above
\* the resume position, unchanged products included.
C13_CompletedRunWritesEveryLaterProduct ==
    (log.result = "completed" /\ settings.sink_enabled /\ ~log.sink_failed) =>
        \A q \in (loc.last_position + 1)..Len(CrawlOrder) :
            HasRow(sheet, CrawlOrder[q].url)

\* ensure_image raised for the current product: run() holds str(exc), which
\* is neither None nor the message it sets itself for a missing image
ImageRaised ==
    /\ pc \in {"upsert", "persist", "link"}
    /\ IsSome(loc.record)
    /\ loc.media_error \notin
        {None, "FreeImage upload skipped (missing API key or empty response)."}

\* C14: the row built for a product whose ensure_image call raised has
\* STATUS = error, a non-empty ERROR_MSG and empty image cells.
C14_ImageFailureGivesErrorRow ==
    ImageRaised =>
        /\ loc.record[1].values.STATUS = "error"
        /\ loc.record[1].values.ERROR_MSG # ""
        /\ loc.record[1].values.IMAGE_DIRECT_URL = ""
        /\ loc.record[1].values.IMAGE_CELL = ""

\* C15: an ensure_image call in which every attempt of a hosting API call
\* failed (freeimage_max_retries + 1 failed attempts of the remote-URL upload
\* or of the binary upload) raises.
C15_ExhaustedUploadRaises ==
    (media_call.made /\ (media_call.url_exhausted \/ media_call.bytes_exhausted))
        => media_call.raised

\* C16: an ensure_image call whose remote-URL upload failed in every attempt
\* does not raise on that account but downloads the source; when the download
\* fails the result is empty, and when it succeeds with a hash the store does
\* not hold the binary upload is attempted.
C16_FailedUrlUploadFallsBackToBytes ==
    (media_call.made /\ media_call.url_exhausted) =>
        /\ ~media_call.raised \/ media_call.bin_invoked
        /\ media_call.gets >= 1
        /\ ~media_call.source_ok =>
                media_call.result = EmptyMediaResult(media_call.original_url)
        /\ ( /\ media_call.source_ok
             /\ _sha256(BytesAt(media_call.original_url))
                    \notin DOMAIN media_call.before )
            => media_call.bin_invoked

\* The last sink call got its worksheet and its header step met no API error
HeaderStepDone ==
    /\ sink_call.made /\ sink_call.reached
    /\ sink_call.failing \cap {"row_values", "header_write"} = {}

\* C17: after a sink call whose header step ran, row 1 of the worksheet is
\* SHEET_COLUMNS, and every data row the call found is where it was and as it
\* was (for an upsert: every data row of another key).
C17_HeaderIsSchemaAndDataRowsKept ==
    HeaderStepDone =>
        /\ row_values(sheet, 1) = SHEET_COLUMNS
        /\ \A r \in 2..Len(sink_call.before) :
                \/ r <= Len(sheet) /\ sheet[r] = sink_call.before[r]
                \/ /\ sink_call.op = "upsert"
                   /\ Len(sink_call.before[r]) >= ColumnIndex("PRODUCT_URL")
                   /\ sink_call.before[r][ColumnIndex("PRODUCT_URL")]
                        = sink_call.key

\* The data rows (rows 2..) of a worksheet
DataRows(sh) == IF Len(sh) < 2 THEN << >> ELSE SubSeq(sh, 2, Len(sh))

\* Data rows of sh whose key is product_url, as indices into DataRows(sh)
KeyRows(sh, product_url) ==
    {i \in 1..Len(DataRows(sh)) :
        /\ Len(DataRows(sh)[i]) >= ColumnIndex("PRODUCT_URL")
        /\ DataRows(sh)[i][ColumnIndex("PRODUCT_URL")] = product_url}

\* C18: an upsert call that returns gives skipped exactly when the sink is disabled or
\* the worksheet was not obtained, and the worksheet is then as before;
\* otherwise, when a data row has the key, it returns updated, the data rows
\* are as many as before, the first row of that key is the record's row over
\* all columns and every other data row is unchanged; and when no data row
\* has the key it returns new and the data rows are those of before followed
\* by the record's row.
C18_UpsertStatusAndFrame ==
    (sink_call.made /\ sink_call.op = "upsert" /\ ~sink_call.raised) =>
        LET old == DataRows(sink_call.before)
            new == DataRows(sheet)
            hits == KeyRows(sink_call.before, sink_call.key)
        IN  /\ (sink_call.status = "skipped") <=> ~sink_call.reached
            /\ ~sink_call.reached => sheet = sink_call.before
            /\ (sink_call.reached /\ hits # {}) =>
                    /\ sink_call.status = "updated"
                    /\ Len(new) = Len(old)
                    /\ \A i \in 1..Len(old) :
                            new[i] = IF i = SetMin(hits)
                                        THEN latest[sink_call.key] ELSE old[i]
            /\ (sink_call.reached /\ hits = {}) =>
                    /\ sink_call.status = "new"
                    /\ new = Append(old, latest[sink_call.key])

\* The content fields in which two records differ
ChangedFields(a, b) == {f \in ContentFields : a[f] # b[f]}

\* C19: two records that agree on all 21 fingerprinted fields have the same
\* fingerprint, whatever their page number, source page, image_urls, resolved
\* image URLs and image hash, and computing it again gives the same value.
C19_EtagDependsOnlyOnContent ==
    (etag_call.made
        /\ ChangedFields(etag_call.before[1], etag_call.after[1]) = {}) =>
            /\ etag_call.etag_after = etag_call.etag_before
            /\ etag_call.etag_after = product_etag(etag_call.after[1])

\* Same content, met on another page with other resolved image fields
C19_Witness ==
    /\ etag_call.made
    /\ ChangedFields(etag_call.before[1], etag_call.after[1]) = {}
    /\ etag_call.before[1].page_number # etag_call.after[1].page_number
    /\ etag_call.before[1].image_sha256 # etag_call.after[1].image_sha256
    /\ etag_call.before[1].image_urls # etag_call.after[1].image_urls
    /\ etag_call.etag_after = etag_call.etag_before

\* C20: two records that differ in exactly one fingerprinted field have
\* different fingerprints, and the product (the ProductState of its URL being
\* that of the earlier record) is classified as needing an update; records
\* that differ only in where the crawl met them have the same fingerprint and
\* the product is not.
C20_AnyContentChangeChangesEtag ==
    etag_call.made =>
        LET changed == ChangedFields(etag_call.before[1], etag_call.after[1])
        IN  /\ Cardinality(changed) = 1 =>
                    /\ etag_call.etag_after # etag_call.etag_before
                    /\ changed # {"product_url"} => etag_call.need_update
            /\ ( /\ changed = {}
                 /\ etag_call.before[1].page_number
                        # etag_call.after[1].page_number ) =>
                    /\ etag_call.etag_after = etag_call.etag_before
                    /\ ~etag_call.need_update

\* The awards alone changed and the product is classified as changed
C20_Witness ==
    /\ etag_call.made
    /\ ChangedFields(etag_call.before[1], etag_call.after[1]) = {"awards"}
    /\ etag_call.etag_after # etag_call.etag_before
    /\ etag_call.need_update

\* C21: read-after-write of the local state store.  After any sequence of
\* upsert_product and save_image calls, get_product(url) returns the product
\* id, fingerprint and image hash of the last upsert_product for that url and
\* there is one row per url written; get_image(hash) returns the URL triple
\* of the last save_image for that hash; get_image_by_original(u) returns a
\* record of original URL u when the last save for some hash used u.
C21_StoreReadsLastWrite ==
    /\ DOMAIN products = DOMAIN store_log.product_writes
    /\ \A u \in DOMAIN store_log.product_writes :
        LET w == store_log.product_writes[u]
            r == get_product(products, u)
        IN  /\ IsSome(r)
            /\ r[1].product_id = w.product_id
            /\ r[1].etag_hash = w.etag_hash
            /\ r[1].image_sha256 = w.image_sha256
    /\ \A h \in DOMAIN store_log.image_writes :
        LET w == store_log.image_writes[h]
            r == get_image(images, h)
            o == get_image_by_original(images, w.original_url)
        IN  /\ IsSome(r)
            /\ r[1].direct_url = w.direct_url
            /\ r[1].viewer_url = w.viewer_url
            /\ r[1].thumb_url = w.thumb_url
            /\ IsSome(o)
            /\ o[1].original_url = w.original_url

\* Both tables were written and some row was replaced by a different one
C21_Witness ==
    /\ store_log.overwrote
    /\ DOMAIN store_log.product_writes # {}
    /\ DOMAIN store_log.image_writes # {}

C24_NavigationTimeoutNeverEndsRun ==
    ~ /\ log.result = "aborted"
      /\ log.failed_at \in log.taken \ log.parsed

\* The cell of a worksheet row under a column of the schema
Cell(row, name) ==
    IF ColumnIndex(name) <= Len(row) THEN row[ColumnIndex(name)] ELSE ""

\* run() has built the row of the current product and handed it, or is about
\* to hand it, to upsert
RowBuilt == pc \in {"upsert", "persist"} /\ IsSome(loc.record)

\* C25: every row the orchestrator upserts with STATUS = error has a
\* non-empty ERROR_MSG cell, in the record handed to upsert and in the
\* worksheet.
C25_ErrorRowsCarryMessage ==
    /\ IsSome(loc.record) /\ loc.record[1].values.STATUS = "error" =>
            loc.record[1].values.ERROR_MSG # ""
    /\ \A r \in 1..Len(sheet) :
            Cell(sheet[r], "STATUS") = "error" =>
                Cell(sheet[r], "ERROR_MSG") # ""

\* An error row was written to the worksheet, once for an upload that was
\* skipped and once for an upload that raised
C25_Witness ==
    /\ pc = "persist" /\ loc.status \in {"new", "updated"}
    /\ loc.current_position \in log.image_raised
    /\ \E r \in 1..Len(sheet) :
        /\ Cell(sheet[r], "STATUS") = "error"
        /\ Cell(sheet[r], "ERROR_MSG") = UploadSkipped
    /\ \E r \in 1..Len(sheet) :
        /\ Cell(sheet[r], "STATUS") = "error"
        /\ Cell(sheet[r], "ERROR_MSG") \notin {"", UploadSkipped}

\* Neither the pipeline's result nor the record cached under the resolved
\* hash gives a direct URL
NoDirectUrl ==
    /\ ~Truthy(loc.media_result[1].direct_url)
    /\ \/ ~Truthy(loc.image_sha)
       \/ get_image(images, loc.image_sha) = NoRecord
       \/ ~Truthy(get_image(images, loc.image_sha)[1].direct_url)

\* C26: when a product needs an update, ensure_image returned without
\* raising and no direct image URL results (neither from the pipeline nor
\* from a cached record), the row is written with STATUS = error and the
\* upload-skipped message as ERROR_MSG.
C26_NoImageWithoutFailureIsSkippedUpload ==
    (RowBuilt /\ loc.current_position \notin log.image_raised /\ NoDirectUrl) =>
        /\ loc.need_update
        /\ loc.record[1].values.STATUS = "error"
        /\ loc.record[1].values.ERROR_MSG = UploadSkipped
        /\ loc.record[1].values.IMAGE_DIRECT_URL = ""
        /\ pc = "persist" /\ loc.status \in {"new", "updated"} =>
            \E r \in 1..Len(sheet) :
                /\ Cell(sheet[r], "PRODUCT_URL") = loc.record[1].unique_key
                /\ Cell(sheet[r], "STATUS") = "error"
                /\ Cell(sheet[r], "ERROR_MSG") = UploadSkipped

\* The source was downloaded and hashed, no upload gave a response and no
\* record is cached under the hash; the row reached the worksheet
C26_Witness ==
    /\ RowBuilt /\ loc.current_position \notin log.image_raised /\ NoDirectUrl
    /\ Truthy(loc.image_sha)
    /\ pc = "persist" /\ loc.status = "new"

\* C27: for every row the orchestrator upserts, STATUS is error exactly when
\* the row has no image direct URL; otherwise STATUS is new when no
\* ProductState existed for the URL when processing began and updated when
\* one existed.  (The ProductState of the URL is not written between the
\* lookup and the sink upsert, so the table still shows what existed.)
C27_StatusFollowsImageAndState ==
    /\ RowBuilt =>
        LET existed == IsSome(get_product(products, loc.record[1].unique_key))
        IN  loc.record[1].values.STATUS =
                IF loc.record[1].values.IMAGE_DIRECT_URL = "" THEN "error"
                ELSE IF existed THEN "updated" ELSE "new"
    /\ \A r \in 2..Len(sheet) :
            Cell(sheet[r], "STATUS") = "error"
                <=> Cell(sheet[r], "IMAGE_DIRECT_URL") = ""

\* A product with earlier state got a row with an image, written as updated
C27_Witness ==
    /\ RowBuilt /\ pc = "persist" /\ loc.status = "updated"
    /\ loc.record[1].values.STATUS = "updated"
    /\ \E r \in 2..Len(sheet) : Cell(sheet[r], "STATUS") = "error"

\* Products of the current run that reached the counter step: the unchanged
\* ones and those whose upsert returned
ReachedCounter == log.unchanged \cup log.upserted

\* What was counted `status` in the current run
CountedAs(statuses) ==
    Cardinality({q \in DOMAIN log.outcome : log.outcome[q] \in statuses})

\* C28: each product processed past the resume position increments exactly
\* one of inserted, updated, skipped: inserted when upsert returned new,
\* updated when it returned updated, skipped when it returned skipped or the
\* product was unchanged; so inserted + updated + skipped is the number of
\* products that reached the counter step, and products passed over by
\* position are not counted.
C28_CountersPartitionProcessedProducts ==
    /\ counters.inserted = CountedAs({"new"})
    /\ counters.updated = CountedAs({"updated"})
    /\ counters.skipped = CountedAs({"skipped", "unchanged"})
    /\ counters.inserted + counters.updated + counters.skipped
            = Cardinality(ReachedCounter)
    /\ DOMAIN log.outcome = ReachedCounter
    /\ \A q \in log.unchanged : log.outcome[q] = "unchanged"
    /\ \A q \in log.upserted : log.outcome[q] \in {"new", "updated", "skipped"}
    /\ ReachedCounter \cap log.passed = {}
    /\ \A q \in ReachedCounter : q > loc.last_position

\* A resumed run passed over a position, inserted a row and skipped an
\* unchanged product
C28_Witness ==
    /\ log.passed # {}
    /\ counters.inserted > 0
    /\ log.unchanged # {}
    /\ counters.skipped > 0

\* C29: at most one product is being processed at a time: the next product
\* is not taken up before the ProductState write of the current one has
\* returned; within a product the steps come in the order parse, fingerprint
\* and state lookup, image pipeline, sink upsert, state persist, so the sink
\* upsert of a changed product precedes its ProductState write.
C29_OneProductAtATimeInOrder ==
    /\ log.taken \ log.persisted \subseteq {loc.current_position}
    /\ pc \in {"parse", "fingerprint", "image", "upsert", "persist"} =>
            log.taken \ {loc.current_position} \subseteq log.persisted
    /\ log.persisted \subseteq log.fingerprinted
    /\ log.fingerprinted \subseteq log.parsed
    /\ log.parsed \subseteq log.taken
    /\ log.imaged \subseteq log.fingerprinted \ log.unchanged
    /\ log.upserted \subseteq log.imaged
    /\ log.persisted \subseteq log.unchanged \cup log.upserted
    /\ Len(log.persisted_urls) = Cardinality(log.persisted)

\* A changed product was written and persisted and the next one is at its
\* sink write
C29_Witness ==
    /\ pc = "upsert"
    /\ log.persisted \cap log.upserted # {}
    /\ loc.current_position \in log.imaged \ log.persisted

\* C30: one hosting API call with the key configured makes at most
\* freeimage_max_retries + 1 POST attempts, makes no attempt after the first
\* usable response, and ends by returning the response, raising, or
\* returning nothing.
C30_PostAttemptsBoundedAndStopAtSuccess ==
    media_call.post.called =>
        /\ media_call.post.posts >= 1
        /\ media_call.post.posts <= freeimage_max_retries + 1
        /\ media_call.post.kind \in {"payload", "raise", "none"}
        /\ media_call.post.first_ok > 0 =>
                /\ media_call.post.kind = "payload"
                /\ media_call.post.posts = media_call.post.first_ok
        /\ media_call.post.first_ok = 0 =>
                /\ media_call.post.kind \in {"raise", "none"}
                /\ media_call.post.crashed_at = 0 =>
                        media_call.post.posts = freeimage_max_retries + 1
                /\ media_call.post.crashed_at > 0 =>
                        /\ media_call.post.kind = "raise"
                        /\ media_call.post.posts = media_call.post.crashed_at

\* A hosting call got its first usable response at an attempt before the
\* last one it was allowed
C30_Witness ==
    /\ media_call.post.called
    /\ media_call.post.first_ok > 0
    /\ media_call.post.first_ok < freeimage_max_retries + 1

\* The wait the backoff rule gives after failed attempt k, k from 0
BackoffRule(k) == IF k = 0 THEN 1 ELSE IF k = 1 THEN 2 ELSE IF k = 2 THEN 4 ELSE 5

\* C31: in a hosting API call the wait after failed attempt k is min(2^k, 5)
\* seconds, the waits never decrease and never exceed 5, and the call waits
\* only between two attempts: it sleeps at most once less than it posts
C31_WaitsOnlyBetweenAttempts ==
    post_call.made =>
        /\ \A k \in DOMAIN post_call.waits :
                /\ post_call.waits[k] = BackoffRule(k - 1)
                /\ post_call.waits[k] <= 5
                /\ k > 1 => post_call.waits[k - 1] <= post_call.waits[k]
        /\ post_call.posts > 0 => Len(post_call.waits) <= post_call.posts - 1
        /\ post_call.posts = 0 => post_call.waits = << >>

\* What C32 calls a response that is not a success
NotASuccess(attempt) ==
    /\ attempt.transport = "answered"
    /\ LET response == attempt.response[1]
       IN  \/ response.status < 200
           \/ response.status > 299
           \/ response.json # "object"
           \/ response.success # "code200"
           \/ response.image # "url"

\* C32: in a hosting API call a response with a non-2xx status, with a body
\* that is not a JSON object, without a success object of code 200 or
\* without image.url is a failed attempt: the call does not end in a
\* payload at it, and another attempt follows it while attempts remain
C32_BadResponsesAreRetriedFailures ==
    (post_call.made /\ Truthy(post_call.api_key)) =>
        \A i \in 1..post_call.posts :
            NotASuccess(post_call.attempts[i]) =>
                /\ ~(post_call.kind = "payload" /\ post_call.posts = i)
                /\ i < freeimage_max_retries + 1 => post_call.posts > i

\* The records of a store whose original source URL is `url`
RecordsOfOriginal(imgs, url) ==
    {imgs[sha] : sha \in {h \in DOMAIN imgs : imgs[h].original_url = url}}

\* C33: when the Image Store has a record whose original source URL is the
\* product's hero image URL, ensure_image returns that record's hash and URL
\* triple with cached = TRUE and uploaded = FALSE, sends no POST and no GET,
\* and leaves the Image Store as it was, with or without a hosting key
C33_CachedOriginalServedWithoutNetwork ==
    (media_call.made /\ Truthy(media_call.original_url)
        /\ RecordsOfOriginal(media_call.before, media_call.original_url) # {}) =>
        /\ ~media_call.raised
        /\ \E rec \in RecordsOfOriginal(media_call.before,
                                         media_call.original_url) :
                media_call.result =
                    MediaUploadResult(rec.sha256, rec.direct_url, rec.viewer_url,
                                      rec.thumb_url, media_call.original_url,
                                      FALSE, TRUE)
        /\ media_call.posts = 0
        /\ media_call.gets = 0
        /\ media_call.accepted = 0
        /\ images = media_call.before

C33_Witness ==
    /\ media_call.made
    /\ Truthy(media_call.api_key)
    /\ RecordsOfOriginal(media_call.before, media_call.original_url) # {}
    /\ media_call.result.cached
    /\ media_call.result.direct_url = HostedDirect(media_call.original_url)

\* C34: whenever ensure_image returns a result with a non-empty content
\* hash, the Image Store afterwards has a record for that hash whose original
\* source URL is the product's hero image URL
C34_ReturnedHashIsStored ==
    (media_call.made /\ ~media_call.raised
        /\ Truthy(media_call.result.sha256)) =>
        /\ media_call.result.sha256 \in DOMAIN images
        /\ images[media_call.result.sha256].original_url
                = media_call.original_url

\* C35: after an accepted remote-URL upload ensure_image downloads the hosted
\* direct URL and, only if that fails, the original source URL; if both fail
\* it returns the hosted triple with uploaded = TRUE and no hash and writes
\* nothing to the Image Store, which then has no record for the source URL
C35_HashDownloadsAfterUrlUpload ==
    (media_call.made /\ media_call.post.called
        /\ media_call.post.kind = "payload") =>
        /\ ~media_call.raised
        /\ media_call.result.uploaded
        /\ media_call.result.direct_url = HostedDirect(media_call.original_url)
        /\ media_call.hosted_ok =>
                /\ media_call.gets = 1
                /\ Truthy(media_call.result.sha256)
        /\ ~media_call.hosted_ok =>
                /\ media_call.gets = 2
                /\ media_call.source_ok <=> Truthy(media_call.result.sha256)
        /\ (~media_call.hosted_ok /\ ~media_call.source_ok) =>
                /\ media_call.result =
                        MediaUploadResult(None,
                            HostedDirect(media_call.original_url),
                            HostedViewer(media_call.original_url),
                            HostedThumb(media_call.original_url),
                            media_call.original_url, TRUE, FALSE)
                /\ images = media_call.before
                /\ RecordsOfOriginal(images, media_call.original_url) = {}
                /\ get_image_by_original(images, media_call.original_url)
                        = NoRecord

C35_Witness ==
    /\ media_call.made
    /\ media_call.post.kind = "payload"
    /\ ~media_call.hosted_ok
    /\ ~media_call.source_ok
    /\ media_call.result.uploaded
    /\ media_call.gets = 2
    /\ media_call.before # EmptyTable

RowsOf(sh, product_url) ==
    SelectSeq(sh, LAMBDA row : Cell(row, "PRODUCT_URL") = product_url)

\* The product has a row with STATUS = error and a persisted ProductState
ErrorRowPersisted(product_url) ==
    /\ product_url \in DOMAIN products
    /\ \E r \in 1..Len(sheet) :
        /\ Cell(sheet[r], "PRODUCT_URL") = product_url
        /\ Cell(sheet[r], "STATUS") = "error"

\* The record the run has read for the current product has the persisted
\* fingerprint
ReadUnchanged ==
    /\ IsSome(loc.normalized)
    /\ loc.normalized[1].product_url \in DOMAIN products
    /\ products[loc.normalized[1].product_url].etag_hash
            = product_etag(loc.normalized[1])

\* C37: once a product has a row with STATUS = error and a persisted
\* ProductState, no step of a run that reads the product with the persisted
\* fingerprint calls ensure_image for it, and no step changes its rows
\* unless the run has read it with another fingerprint
C37_ErrorRowStaysUntilProductChanges ==
    [][ /\ (pc = "image" /\ pc' # "image"
            /\ ErrorRowPersisted(loc.normalized[1].product_url))
            => ~ReadUnchanged
        /\ \A u \in ProductUrls :
            (ErrorRowPersisted(u) /\ RowsOf(sheet', u) # RowsOf(sheet, u)) =>
                /\ pc = "upsert"
                /\ loc.normalized[1].product_url = u
                /\ ~ReadUnchanged ]_vars

\* A later run has read a product that has an error row with the persisted
\* fingerprint, and has passed it by
C37_Witness ==
    /\ runs = 2
    /\ pc = "persist"
    /\ ~loc.need_update
    /\ ReadUnchanged
    /\ ErrorRowPersisted(loc.normalized[1].product_url)
    /\ loc.current_position \notin log.imaged
    /\ ~Truthy(products[loc.normalized[1].product_url].image_sha256)

\* C38: on any site, with or without redirects, crawl hands no URL to
\* page.goto twice, so that it navigates at most once per category URL and
\* ends when the queue is empty
C38_EachCategoryPageNavigatedOnce ==
    /\ \A i, j \in 1..Len(crawl.navigations) :
            i # j => crawl.navigations[i] # crawl.navigations[j]
    /\ Len(crawl.navigations) <= Cardinality(CategoryUrls)

\* The text says the product is not in stock
SaysNotInStock(text) ==
    \/ Contains(lower(text), << "net", "v", "nalichii" >>)
    \/ Contains(lower(text), << "ozhidaetsya" >>)
    \/ Contains(lower(text), << "pod", "zakaz" >>)

\* C39: _normalize_availability returns False for a text that says the
\* product is not in stock (it has "net v nalichii", "ozhidaetsya" or "pod
\* zakaz"), True for a text that has "v nalichii" and does not say so, and
\* None for an empty or any other text
C39_AvailabilityFollowsText ==
    avail_call.made =>
        LET text == avail_call.availability_text
        IN  /\ SaysNotInStock(text) => avail_call.result = "False"
            /\ (Contains(lower(text), << "v", "nalichii" >>)
                    /\ ~SaysNotInStock(text)) => avail_call.result = "True"
            /\ (~Contains(lower(text), << "v", "nalichii" >>)
                    /\ ~SaysNotInStock(text)) => avail_call.result = "None"

====
